---- MODULE Spec2Model ----
(***************************************************************************)
(* Verification model of the JSONL viewer backend (src/app.go): ingestion  *)
(* of a line-delimited JSON source, the record store with offset/limit     *)
(* paging, the Lucene-like query compiler and its evaluator.               *)
(*                                                                         *)
(* Go strings are modelled as sequences of one-character strings, so that  *)
(* strings.Contains, strings.Split, strings.TrimSpace, strings.ToLower ... *)
(* are computed character by character as the library computes them.       *)
(***************************************************************************)
EXTENDS Integers, Sequences, FiniteSets, TLC

(***************************************************************************)
(* Go string library (package strings), on sequences of characters.        *)
(***************************************************************************)
QUOTE == "\""

IsSpace(c) == c \in {" ", "\t", "\r", "\n"}

HasPrefix(s, p) == Len(p) <= Len(s) /\ SubSeq(s, 1, Len(p)) = p

HasSuffix(s, p) == Len(p) <= Len(s) /\ SubSeq(s, Len(s) - Len(p) + 1, Len(s)) = p

\* strings.Index, 1-based; 0 when sep does not occur in s.
Index(s, sep) ==
    LET hits == {i \in 1..(Len(s) - Len(sep) + 1) : SubSeq(s, i, i + Len(sep) - 1) = sep}
    IN IF hits = {} THEN 0 ELSE CHOOSE i \in hits : \A j \in hits : i <= j

Contains(s, sep) == Index(s, sep) # 0

\* strings.Split for a non-empty separator: leftmost, non-overlapping.
RECURSIVE Split(_, _)
Split(s, sep) ==
    LET i == Index(s, sep)
    IN IF i = 0 THEN <<s>>
       ELSE <<SubSeq(s, 1, i - 1)>> \o Split(SubSeq(s, i + Len(sep), Len(s)), sep)

\* strings.SplitN(s, sep, 2)
SplitN2(s, sep) ==
    LET i == Index(s, sep)
    IN IF i = 0 THEN <<s>>
       ELSE <<SubSeq(s, 1, i - 1), SubSeq(s, i + Len(sep), Len(s))>>

TrimSpace(s) ==
    LET keep == {i \in 1..Len(s) : ~IsSpace(s[i])}
    IN IF keep = {} THEN <<>>
       ELSE SubSeq(s, CHOOSE i \in keep : \A j \in keep : i <= j,
                      CHOOSE i \in keep : \A j \in keep : i >= j)

UpperChars == <<"A","B","C","D","E","F","G","H","I","J","K","L","M",
                "N","O","P","Q","R","S","T","U","V","W","X","Y","Z">>

LowerChars == <<"a","b","c","d","e","f","g","h","i","j","k","l","m",
                "n","o","p","q","r","s","t","u","v","w","x","y","z">>

LowerChar(c) ==
    IF \E k \in 1..Len(UpperChars) : UpperChars[k] = c
    THEN LowerChars[CHOOSE k \in 1..Len(UpperChars) : UpperChars[k] = c]
    ELSE c

ToLower(s) == [i \in 1..Len(s) |-> LowerChar(s[i])]

\* strings.ReplaceAll(s, c, "") for a one-character c.
RemoveChar(s, c) == SelectSeq(s, LAMBDA x : x # c)

\* strings.Join(parts, sep)
RECURSIVE Join(_, _)
Join(parts, sep) ==
    IF parts = <<>> THEN <<>>
    ELSE IF Len(parts) = 1 THEN parts[1]
    ELSE parts[1] \o sep \o Join(Tail(parts), sep)

(***************************************************************************)
(* encoding/json and fmt, restricted to the values the bounded inputs      *)
(* contain: objects whose member values are strings without escapes,       *)
(* non-negative integers, true, false and null.  A JSON value is           *)
(* [kind, str, num]; a Go map is a function from keys to values.           *)
(***************************************************************************)
Digits == <<"0","1","2","3","4","5","6","7","8","9">>

IsDigit(c) == \E k \in 1..10 : Digits[k] = c

DigitVal(c) == (CHOOSE k \in 1..10 : Digits[k] = c) - 1

RECURSIVE DecimalValue(_)
DecimalValue(s) ==
    IF s = <<>> THEN 0
    ELSE 10 * DecimalValue(SubSeq(s, 1, Len(s) - 1)) + DigitVal(s[Len(s)])

RECURSIVE DecimalText(_)
DecimalText(n) ==
    IF n < 10 THEN <<Digits[n + 1]>>
    ELSE DecimalText(n \div 10) \o <<Digits[(n % 10) + 1]>>

StrVal(s) == [kind |-> "string", str |-> s, num |-> 0]
NumVal(n) == [kind |-> "number", str |-> <<>>, num |-> n]
LitVal(k) == [kind |-> k, str |-> <<>>, num |-> 0]

NilText == <<"<","n","i","l",">">>
TrueText == <<"t","r","u","e">>
FalseText == <<"f","a","l","s","e">>
NullText == <<"n","u","l","l">>

\* fmt.Sprintf("%v", value) of a value decoded into interface{}.
Sprint(v) ==
    CASE v.kind = "string" -> v.str
      [] v.kind = "number" -> DecimalText(v.num)
      [] v.kind = "true" -> TrueText
      [] v.kind = "false" -> FalseText
      [] OTHER -> NilText

\* First position >= i of s that holds no JSON whitespace (Len(s)+1 at the end).
SkipWS(s, i) ==
    CHOOSE j \in i..(Len(s) + 1) :
        /\ (j = Len(s) + 1 \/ ~IsSpace(s[j]))
        /\ \A k \in i..(j - 1) : IsSpace(s[k])

NoValue == [ok |-> FALSE, val |-> LitVal("null"), next |-> 0]

\* A scalar JSON value starting at position i: [ok, val, next].
ScanValue(s, i) ==
    IF i > Len(s) THEN NoValue
    ELSE IF s[i] = QUOTE THEN
        LET rest == SubSeq(s, i + 1, Len(s))
            j == Index(rest, <<QUOTE>>)
        IN IF j = 0 THEN NoValue
           ELSE [ok |-> TRUE, val |-> StrVal(SubSeq(rest, 1, j - 1)), next |-> i + j + 1]
    ELSE IF IsDigit(s[i]) THEN
        LET j == CHOOSE e \in i..Len(s) :
                    /\ \A k \in i..e : IsDigit(s[k])
                    /\ (e = Len(s) \/ ~IsDigit(s[e + 1]))
        IN IF s[i] = "0" /\ j > i THEN NoValue
           ELSE [ok |-> TRUE, val |-> NumVal(DecimalValue(SubSeq(s, i, j))), next |-> j + 1]
    ELSE IF HasPrefix(SubSeq(s, i, Len(s)), TrueText) THEN
        [ok |-> TRUE, val |-> LitVal("true"), next |-> i + 4]
    ELSE IF HasPrefix(SubSeq(s, i, Len(s)), FalseText) THEN
        [ok |-> TRUE, val |-> LitVal("false"), next |-> i + 5]
    ELSE IF HasPrefix(SubSeq(s, i, Len(s)), NullText) THEN
        [ok |-> TRUE, val |-> LitVal("null"), next |-> i + 4]
    ELSE NoValue

EmptyMap == <<>>

DecodeError == [err |-> TRUE, content |-> EmptyMap]

\* The members of an object from position i (just before a key): the decoded
\* map when the text up to the end of s is `"k":v, ... }`, a later key
\* replacing an earlier equal one.
RECURSIVE ScanMembers(_, _, _)
ScanMembers(s, i, acc) ==
    LET k == ScanValue(s, SkipWS(s, i))
    IN IF ~k.ok \/ k.val.kind # "string" THEN DecodeError
       ELSE LET c == SkipWS(s, k.next)
            IN IF c > Len(s) \/ s[c] # ":" THEN DecodeError
               ELSE LET v == ScanValue(s, SkipWS(s, c + 1))
                    IN IF ~v.ok THEN DecodeError
                       ELSE LET e == SkipWS(s, v.next)
                                m == (k.val.str :> v.val) @@ acc
                            IN IF e > Len(s) THEN DecodeError
                               ELSE IF s[e] = "," THEN ScanMembers(s, e + 1, m)
                               ELSE IF s[e] = "}" /\ SkipWS(s, e + 1) = Len(s) + 1
                                    THEN [err |-> FALSE, content |-> m]
                               ELSE DecodeError

\* json.Unmarshal([]byte(line), &content) with content a map[string]interface{}:
\* an object decodes into the map, the literal null leaves the map nil without
\* an error, every other text (another JSON value, or no JSON at all) is an error.
Unmarshal(line) ==
    LET i == SkipWS(line, 1)
    IN IF i > Len(line) THEN DecodeError
       ELSE IF TrimSpace(line) = NullText THEN [err |-> FALSE, content |-> EmptyMap]
       ELSE IF line[i] # "{" THEN DecodeError
       ELSE LET j == SkipWS(line, i + 1)
            IN IF j <= Len(line) /\ line[j] = "}"
               THEN IF SkipWS(line, j + 1) = Len(line) + 1
                    THEN [err |-> FALSE, content |-> EmptyMap]
                    ELSE DecodeError
               ELSE ScanMembers(line, i + 1, EmptyMap)

(***************************************************************************)
(* Data types of src/app.go.  A nil pointer or nil slice element is the    *)
(* empty sequence, a non-nil pointer the one-element sequence <<value>>.   *)
(***************************************************************************)
Nil == <<>>

JSONRecord(lineNumber, content, rawJSON) ==
    [LineNumber |-> lineNumber, Content |-> content, RawJSON |-> rawJSON]

FileStats(totalLines, validRecords, invalidLines, commonFields, fileSize) ==
    [TotalLines |-> totalLines, ValidRecords |-> validRecords,
     InvalidLines |-> invalidLines, CommonFields |-> commonFields,
     FileSize |-> fileSize]

LuceneQuery(type, field, value, left, right, query) ==
    [Type |-> type, Field |-> field, Value |-> value,
     Left |-> left, Right |-> right, Query |-> query]

(***************************************************************************)
(* Query compiler.                                                         *)
(***************************************************************************)
OrText == <<" ", "O", "R", " ">>
AndText == <<" ", "A", "N", "D", " ">>
NotText == <<"N", "O", "T", " ">>

\* The field:value / phrase / wildcard / term classification of an
\* operator-free query (already trimmed).
parseAtom(query) ==
    IF Contains(query, <<":">>)
    THEN LET parts == SplitN2(query, <<":">>)
             field == TrimSpace(parts[1])
             value == TrimSpace(parts[2])
         IN IF HasPrefix(value, <<QUOTE>>) /\ HasSuffix(value, <<QUOTE>>) /\ Len(value) > 1
            THEN LuceneQuery("phrase", field, SubSeq(value, 2, Len(value) - 1), Nil, Nil, Nil)
            ELSE IF Contains(value, <<"*">>) \/ Contains(value, <<"?">>)
            THEN LuceneQuery("wildcard", field, value, Nil, Nil, Nil)
            ELSE LuceneQuery("field", field, value, Nil, Nil, Nil)
    ELSE IF HasPrefix(query, <<QUOTE>>) /\ HasSuffix(query, <<QUOTE>>) /\ Len(query) > 1
    THEN LuceneQuery("phrase", <<>>, SubSeq(query, 2, Len(query) - 1), Nil, Nil, Nil)
    ELSE IF Contains(query, <<"*">>) \/ Contains(query, <<"?">>)
    THEN LuceneQuery("wildcard", <<>>, query, Nil, Nil, Nil)
    ELSE LuceneQuery("term", <<>>, query, Nil, Nil, Nil)

RECURSIVE parseLuceneQuery(_), parseOperands(_, _, _, _)

\* The loop `for i := 1; i < len(parts); i++` of the OR and AND branches:
\* left = &LuceneQuery{Type: type, Left: left, Right: parse(parts[i])}.
parseOperands(type, parts, i, left) ==
    IF i > Len(parts) THEN left
    ELSE parseOperands(type, parts, i + 1,
            <<LuceneQuery(type, <<>>, <<>>, left,
                          parseLuceneQuery(TrimSpace(parts[i])), Nil)>>)

\* A compiler that looks for " AND " before " OR " (the mutant of
\* parseLuceneQuery).
parseLuceneQueryAndFirst(q) ==
    IF TrimSpace(q) = <<>> THEN Nil
    ELSE LET query == TrimSpace(q)
         IN IF Contains(query, AndText)
            THEN LET parts == Split(query, AndText)
                 IN parseOperands("and", parts, 2, parseLuceneQuery(TrimSpace(parts[1])))
            ELSE IF Contains(query, OrText)
            THEN LET parts == Split(query, OrText)
                 IN parseOperands("or", parts, 2, parseLuceneQuery(TrimSpace(parts[1])))
            ELSE IF HasPrefix(query, NotText)
            THEN <<LuceneQuery("not", <<>>, <<>>, Nil, Nil,
                               parseLuceneQuery(TrimSpace(SubSeq(query, 5, Len(query)))))>>
            ELSE <<parseAtom(query)>>

\* parseLuceneQuery returns a *LuceneQuery: Nil or <<node>>.
parseLuceneQuery(q) ==
    IF TrimSpace(q) = <<>> THEN Nil
    ELSE LET query == TrimSpace(q)
         IN IF Contains(query, OrText)
            THEN LET parts == Split(query, OrText)
                 IN parseOperands("or", parts, 2, parseLuceneQuery(TrimSpace(parts[1])))
            ELSE IF Contains(query, AndText)
            THEN LET parts == Split(query, AndText)
                 IN parseOperands("and", parts, 2, parseLuceneQuery(TrimSpace(parts[1])))
            ELSE IF HasPrefix(query, NotText)
            THEN <<LuceneQuery("not", <<>>, <<>>, Nil, Nil,
                               parseLuceneQuery(TrimSpace(SubSeq(query, 5, Len(query)))))>>
            ELSE <<parseAtom(query)>>

(***************************************************************************)
(* Query evaluator.                                                        *)
(***************************************************************************)
\* A matchFieldValue without the nil check (the mutant of matchFieldValue).
matchFieldValueNoNilCheck(fieldValue, searchValue, caseSensitive) ==
    IF ~caseSensitive
    THEN Contains(ToLower(Sprint(fieldValue)), ToLower(searchValue))
    ELSE Contains(Sprint(fieldValue), searchValue)

matchFieldValue(fieldValue, searchValue, caseSensitive) ==
    IF fieldValue.kind = "null" THEN FALSE
    ELSE LET fieldStr == Sprint(fieldValue)
         IN IF ~caseSensitive
            THEN Contains(ToLower(fieldStr), ToLower(searchValue))
            ELSE Contains(fieldStr, searchValue)

matchPhrase(text, phrase, caseSensitive) ==
    IF text = <<>> THEN FALSE
    ELSE IF ~caseSensitive
    THEN Contains(ToLower(text), ToLower(phrase))
    ELSE Contains(text, phrase)

\* A matcher whose `*suffix` case tests containment, not the end of the text
\* (the mutant of simpleWildcardMatch).
simpleWildcardMatchLooseSuffix(text, pattern) ==
    IF pattern = <<"*">> THEN TRUE
    ELSE IF ~Contains(pattern, <<"*">>) /\ ~Contains(pattern, <<"?">>)
    THEN Contains(text, pattern)
    ELSE IF HasPrefix(pattern, <<"*">>)
    THEN Contains(text, RemoveChar(pattern, "*"))
    ELSE IF HasSuffix(pattern, <<"*">>)
    THEN HasPrefix(text, SubSeq(pattern, 1, Len(pattern) - 1))
    ELSE Contains(text, RemoveChar(pattern, "*"))

simpleWildcardMatch(text, pattern) ==
    IF pattern = <<"*">> THEN TRUE
    ELSE IF ~Contains(pattern, <<"*">>) /\ ~Contains(pattern, <<"?">>)
    THEN Contains(text, pattern)
    ELSE IF HasPrefix(pattern, <<"*">>) /\ HasSuffix(pattern, <<"*">>)
    THEN Contains(text, SubSeq(pattern, 2, Len(pattern) - 1))
    ELSE IF HasPrefix(pattern, <<"*">>)
    THEN HasSuffix(text, SubSeq(pattern, 2, Len(pattern)))
    ELSE IF HasSuffix(pattern, <<"*">>)
    THEN HasPrefix(text, SubSeq(pattern, 1, Len(pattern) - 1))
    ELSE Contains(text, RemoveChar(pattern, "*"))

matchWildcard(text, pattern, caseSensitive) ==
    IF text = <<>> THEN FALSE
    ELSE IF ~caseSensitive
    THEN simpleWildcardMatch(ToLower(text), ToLower(pattern))
    ELSE simpleWildcardMatch(text, pattern)

matchTerm(text, term, caseSensitive) ==
    IF text = <<>> THEN FALSE
    ELSE IF ~caseSensitive
    THEN Contains(ToLower(text), ToLower(term))
    ELSE Contains(text, term)

\* record.Content[field] exists
HasKey(record, field) == field \in DOMAIN record.Content

RECURSIVE evaluateLuceneQuery(_, _, _)

\* An evaluator whose "or" case was copied from "and" (the mutant of
\* evaluateLuceneQuery).
evaluateLuceneQueryOrAsAnd(query, record, caseSensitive) ==
    IF query = Nil THEN FALSE
    ELSE LET q == query[1]
         IN CASE q.Type = "and" ->
                    evaluateLuceneQuery(q.Left, record, caseSensitive)
                    /\ evaluateLuceneQuery(q.Right, record, caseSensitive)
              [] q.Type = "or" ->
                    evaluateLuceneQuery(q.Left, record, caseSensitive)
                    /\ evaluateLuceneQuery(q.Right, record, caseSensitive)
              [] q.Type = "not" ->
                    ~evaluateLuceneQuery(q.Query, record, caseSensitive)
              [] q.Type = "field" ->
                    IF HasKey(record, q.Field)
                    THEN matchFieldValue(record.Content[q.Field], q.Value, caseSensitive)
                    ELSE FALSE
              [] q.Type = "phrase" ->
                    IF q.Field # <<>>
                    THEN IF HasKey(record, q.Field)
                         THEN matchPhrase(Sprint(record.Content[q.Field]), q.Value, caseSensitive)
                         ELSE FALSE
                    ELSE matchPhrase(record.RawJSON, q.Value, caseSensitive)
              [] q.Type = "wildcard" ->
                    IF q.Field # <<>>
                    THEN IF HasKey(record, q.Field)
                         THEN matchWildcard(Sprint(record.Content[q.Field]), q.Value, caseSensitive)
                         ELSE FALSE
                    ELSE matchWildcard(record.RawJSON, q.Value, caseSensitive)
              [] q.Type = "term" ->
                    IF q.Field # <<>>
                    THEN IF HasKey(record, q.Field)
                         THEN matchFieldValue(record.Content[q.Field], q.Value, caseSensitive)
                         ELSE FALSE
                    ELSE matchTerm(record.RawJSON, q.Value, caseSensitive)
              [] OTHER -> FALSE

evaluateLuceneQuery(query, record, caseSensitive) ==
    IF query = Nil THEN FALSE
    ELSE LET q == query[1]
         IN CASE q.Type = "and" ->
                    evaluateLuceneQuery(q.Left, record, caseSensitive)
                    /\ evaluateLuceneQuery(q.Right, record, caseSensitive)
              [] q.Type = "or" ->
                    evaluateLuceneQuery(q.Left, record, caseSensitive)
                    \/ evaluateLuceneQuery(q.Right, record, caseSensitive)
              [] q.Type = "not" ->
                    ~evaluateLuceneQuery(q.Query, record, caseSensitive)
              [] q.Type = "field" ->
                    IF HasKey(record, q.Field)
                    THEN matchFieldValue(record.Content[q.Field], q.Value, caseSensitive)
                    ELSE FALSE
              [] q.Type = "phrase" ->
                    IF q.Field # <<>>
                    THEN IF HasKey(record, q.Field)
                         THEN matchPhrase(Sprint(record.Content[q.Field]), q.Value, caseSensitive)
                         ELSE FALSE
                    ELSE matchPhrase(record.RawJSON, q.Value, caseSensitive)
              [] q.Type = "wildcard" ->
                    IF q.Field # <<>>
                    THEN IF HasKey(record, q.Field)
                         THEN matchWildcard(Sprint(record.Content[q.Field]), q.Value, caseSensitive)
                         ELSE FALSE
                    ELSE matchWildcard(record.RawJSON, q.Value, caseSensitive)
              [] q.Type = "term" ->
                    IF q.Field # <<>>
                    THEN IF HasKey(record, q.Field)
                         THEN matchFieldValue(record.Content[q.Field], q.Value, caseSensitive)
                         ELSE FALSE
                    ELSE matchTerm(record.RawJSON, q.Value, caseSensitive)
              [] OTHER -> FALSE
(***************************************************************************)
(* Ingestor.                                                               *)
(***************************************************************************)
\* bufio.Scanner with the default ScanLines split function: lines end at "\n",
\* one trailing "\r" is dropped, and no empty last line follows a final "\n".
ScanLines(content) ==
    LET parts == Split(content, <<"\n">>)
        kept == IF parts[Len(parts)] = <<>> THEN SubSeq(parts, 1, Len(parts) - 1) ELSE parts
    IN [i \in 1..Len(kept) |->
            IF HasSuffix(kept[i], <<"\r">>) THEN SubSeq(kept[i], 1, Len(kept[i]) - 1)
            ELSE kept[i]]

\* for field := range content { fieldCounts[field]++ }
CountFields(fieldCounts, content) ==
    [f \in (DOMAIN fieldCounts) \cup (DOMAIN content) |->
        (IF f \in DOMAIN fieldCounts THEN fieldCounts[f] ELSE 0)
        + (IF f \in DOMAIN content THEN 1 ELSE 0)]

\* Fields that appear in at least totalRecords / 2 records (integer division).
CommonFieldsOf(fieldCounts, totalRecords) ==
    {f \in DOMAIN fieldCounts : fieldCounts[f] >= totalRecords \div 2}

NoRecords == <<>>

ParseStart == [records |-> NoRecords, invalidLines |-> <<>>, fieldCounts |-> EmptyMap, totalRecords |-> 0]

\* A loop body that numbers a record by its rank among the stored records,
\* not by the position of its line (the mutant of ParseLine).
ParseLineNumberedByRecord(acc, text, lineNumber) ==
    LET line == TrimSpace(text)
        dec == Unmarshal(line)
    IN IF line = <<>> THEN acc
       ELSE IF dec.err
       THEN [acc EXCEPT !.invalidLines = Append(@, lineNumber)]
       ELSE [records |-> Append(acc.records,
                                JSONRecord(acc.totalRecords + 1, dec.content, line)),
             invalidLines |-> acc.invalidLines,
             fieldCounts |-> CountFields(acc.fieldCounts, dec.content),
             totalRecords |-> acc.totalRecords + 1]

\* A loop body that reports blank lines as invalid (the mutant of ParseLine).
ParseLineBlankIsInvalid(acc, text, lineNumber) ==
    LET line == TrimSpace(text)
        dec == Unmarshal(line)
    IN IF line = <<>> \/ dec.err
       THEN [acc EXCEPT !.invalidLines = Append(@, lineNumber)]
       ELSE [records |-> Append(acc.records, JSONRecord(lineNumber, dec.content, line)),
             invalidLines |-> acc.invalidLines,
             fieldCounts |-> CountFields(acc.fieldCounts, dec.content),
             totalRecords |-> acc.totalRecords + 1]

\* One iteration of the line loop, for the line numbered lineNumber.
ParseLine(acc, text, lineNumber) ==
    LET line == TrimSpace(text)
        dec == Unmarshal(line)
    IN IF line = <<>> THEN acc
       ELSE IF dec.err
       THEN [acc EXCEPT !.invalidLines = Append(@, lineNumber)]
       ELSE [records |-> Append(acc.records, JSONRecord(lineNumber, dec.content, line)),
             invalidLines |-> acc.invalidLines,
             fieldCounts |-> CountFields(acc.fieldCounts, dec.content),
             totalRecords |-> acc.totalRecords + 1]

RECURSIVE ParseLoop(_, _, _)
ParseLoop(lines, i, acc) ==
    IF i > Len(lines) THEN acc
    ELSE ParseLoop(lines, i + 1, ParseLine(acc, lines[i], i))

\* (p *JSONLParser) ParseJSONL over a file holding `content`: [records, stats].
ParseJSONL(content) ==
    LET lines == ScanLines(content)
        acc == ParseLoop(lines, 1, ParseStart)
    IN [records |-> acc.records,
        stats |-> FileStats(Len(lines), acc.totalRecords, acc.invalidLines,
                            CommonFieldsOf(acc.fieldCounts, acc.totalRecords), Len(content))]

\* ParseJSONLFromString(content): [records, stats].
ParseJSONLFromString(content) ==
    LET lines == Split(content, <<"\n">>)
        acc == ParseLoop(lines, 1, ParseStart)
    IN [records |-> acc.records,
        stats |-> FileStats(Len(lines), acc.totalRecords, acc.invalidLines,
                            CommonFieldsOf(acc.fieldCounts, acc.totalRecords), Len(content))]

(***************************************************************************)
(* Projection: the field filter of the export (getDisplayJSON) and of the  *)
(* record viewer (displayJSON / filterFields).  Strings here hold no       *)
(* character that json.Marshal or JSON.stringify escapes.                  *)
(***************************************************************************)
\* Characters in byte order, as far as keys use them.
ByteOrder == Digits \o UpperChars \o LowerChars

CharRank(c) == CHOOSE k \in 1..Len(ByteOrder) : ByteOrder[k] = c

\* x < y on Go strings (byte-wise lexicographic).
RECURSIVE KeyLess(_, _)
KeyLess(x, y) ==
    IF y = <<>> THEN FALSE
    ELSE IF x = <<>> THEN TRUE
    ELSE IF x[1] = y[1] THEN KeyLess(Tail(x), Tail(y))
    ELSE CharRank(x[1]) < CharRank(y[1])

\* encoding/json writes the keys of a map in sorted order.
RECURSIVE SortedKeys(_)
SortedKeys(keys) ==
    IF keys = {} THEN <<>>
    ELSE LET first == CHOOSE k \in keys : \A o \in keys \ {k} : KeyLess(k, o)
         IN <<first>> \o SortedKeys(keys \ {first})

MarshalValue(v) ==
    CASE v.kind = "string" -> <<QUOTE>> \o v.str \o <<QUOTE>>
      [] v.kind = "number" -> DecimalText(v.num)
      [] v.kind = "true" -> TrueText
      [] v.kind = "false" -> FalseText
      [] OTHER -> NullText

\* {"k1":v1,"k2":v2} for the keys in the given order.
ObjectText(content, keys) ==
    <<"{">> \o Join([i \in 1..Len(keys) |->
                        <<QUOTE>> \o keys[i] \o <<QUOTE, ":">> \o MarshalValue(content[keys[i]])],
                    <<",">>) \o <<"}">>

\* json.Marshal(filteredContent), filteredContent a non-nil map.
Marshal(content) == ObjectText(content, SortedKeys(DOMAIN content))

InList(x, list) == \E i \in 1..Len(list) : list[i] = x

\* A getDisplayJSON that hides hiddenFields even when shownFields is set (the
\* mutant of getDisplayJSON).
getDisplayJSONShowThenHide(record, shownFields, hiddenFields) ==
    IF Len(shownFields) = 0 /\ Len(hiddenFields) = 0 THEN record.RawJSON
    ELSE Marshal([f \in {g \in DOMAIN record.Content :
                            /\ (Len(shownFields) > 0 => InList(g, shownFields))
                            /\ ~InList(g, hiddenFields)}
                    |-> record.Content[f]])

getDisplayJSON(record, shownFields, hiddenFields) ==
    IF Len(shownFields) = 0 /\ Len(hiddenFields) = 0 THEN record.RawJSON
    ELSE IF Len(shownFields) > 0
    THEN Marshal([f \in {g \in DOMAIN record.Content : InList(g, shownFields)}
                    |-> record.Content[f]])
    ELSE Marshal([f \in {g \in DOMAIN record.Content : ~InList(g, hiddenFields)}
                    |-> record.Content[f]])

\* A record whose content reaches the front end as null (a nil Go map).
NullContent(record) == record.Content = EmptyMap /\ record.RawJSON = NullText

\* A filterFields that applies fieldsToHide also when fieldsToShow is set (the
\* mutant of filterFields).
filterFieldsShowThenHide(obj, fieldsToShow, fieldsToHide) ==
    [f \in {g \in DOMAIN obj : /\ (Len(fieldsToShow) > 0 => InList(g, fieldsToShow))
                               /\ ~InList(g, fieldsToHide)} |-> obj[f]]

\* filterFields(obj) under the stores $fieldsToShow and $fieldsToHide, obj an object.
filterFields(obj, fieldsToShow, fieldsToHide) ==
    IF Len(fieldsToShow) > 0
    THEN [f \in {g \in DOMAIN obj : InList(g, fieldsToShow)} |-> obj[f]]
    ELSE [f \in {g \in DOMAIN obj : ~InList(g, fieldsToHide)} |-> obj[f]]

\* JSON.stringify of an object received from the backend: its keys come in
\* the order of the wire text, which encoding/json wrote sorted.
Stringify(obj) == ObjectText(obj, SortedKeys(DOMAIN obj))

\* displayJSON(record) of the record viewer.
displayJSON(record, fieldsToShow, fieldsToHide) ==
    IF record.RawJSON = <<>> THEN <<>>
    ELSE IF NullContent(record) THEN NullText
    ELSE Stringify(filterFields(record.Content, fieldsToShow, fieldsToHide))

(***************************************************************************)
(* Session state of the App and its environment.                           *)
(***************************************************************************)
VARIABLES
    currentFile,  \* a.currentFile: Nil or <<JSONLFile>>
    records,      \* a.records
    cache,        \* a.cache: Nil or <<RecordCache>>
    disk,         \* the file at DataPath: [content, modTime]
    now,          \* the clock read by time.Now()
    downloads,    \* names of the export files in the Downloads directory
    ui,           \* the front end: its stores and the state of its components
    threads,      \* handlers that run concurrently: their position and locals
    call,         \* the request being served (operation and arguments)
    ret           \* its response, until the caller has taken it

appVars == <<currentFile, records, cache>>
envVars == <<disk, now, downloads, ui, threads>>
vars == <<currentFile, records, cache, disk, now, downloads, ui, threads, call, ret>>

DefaultPageSize == 50
MaxPageLimit == 1000
DefaultSearchLimit == 50

\* Bounds of the explored inputs.
MaxOffset == 2
MaxLimitInput == 2
MaxClock == 1

DataPath == "data.jsonl"
ClipboardPath == "<clipboard>"
PathInputs == {"", "missing.jsonl", DataPath}

FileA == <<"{","\"","a","\"",":","\"","X","y","\"","}","\n","\n","{","\"","a","\"",":","\n","{","\"","b","\"",":","1","}","\n">>
FileB == <<"{","\"","a","\"",":","\"","x","\"",",","\"","b","\"",":","1","2","}","\n","n","u","l","l","\n","{","\"","a","\"",":","\"","Y","\"","}">>
FileContents == {FileA, FileB}

ClipBlank == <<" ","\n">>
ClipNoRecord == <<"[","1","]","\n","7">>
ClipRecords == <<"{","\"","b","\"",":","1","}","\r","\n","{","\"","a","\"",":","\"","x","y","\"","}","\n">>
ClipboardContents == {ClipBlank, ClipNoRecord, ClipRecords}

OffsetInputs == (-1)..MaxOffset
LimitInputs == (0..MaxLimitInput) \cup {MaxPageLimit + 1}
PageSizeInputs == {0, 2, MaxPageLimit + 1}

QueryEmpty == <<>>
QueryBlank == <<" ">>
QueryField == <<"a",":","x">>
QueryOr == <<"a",":","Y"," ","O","R"," ","b",":","1">>
QueryNot == <<"N","O","T"," ","a",":","x">>
QueryWild == <<"*","y","\"","}">>
QueryInputs == {QueryEmpty, QueryBlank, QueryField, QueryOr, QueryNot, QueryWild}
SelectedFieldInputs == {<<>>, <<"a">>}

MaxLineInput == 4
LineInputs == (-1)..MaxLineInput

VisibilityInputs ==
    {[shown |-> <<>>, hidden |-> <<>>],
     [shown |-> <<<<"a">>>>, hidden |-> <<<<"b">>>>],
     [shown |-> <<>>, hidden |-> <<<<"a">>>>]}

JSONLFile(name, path, size, nrecords, loadedAt, modifiedAt) ==
    [Name |-> name, Path |-> path, Size |-> size, Records |-> nrecords,
     LoadedAt |-> loadedAt, ModifiedAt |-> modifiedAt]

RecordCache(recs, pageSize, totalCount) ==
    [records |-> recs, pageSize |-> pageSize, totalCount |-> totalCount]

SearchOptions(query, caseSensitive, useLucene, selectedField, offset, limit) ==
    [Query |-> query, CaseSensitive |-> caseSensitive, UseLucene |-> useLucene,
     SelectedField |-> selectedField, Offset |-> offset, Limit |-> limit]

\* No front end is attached; no handler runs beside the one in call.
NoUI == <<>>
NoThreads == <<>>

NoCall == [op |-> "none"]
NoRet == [op |-> "none"]

Idle == call = NoCall /\ ret = NoRet

\* A paginated response (PaginatedRecords and SearchResult share the shape;
\* TotalMatches and Query stay at their zero values in a PaginatedRecords).
\* parsed records whether the handler invoked parseLuceneQuery.
Page(op, recs, offset, limit, total, totalMatches, hasMore, query, parsed) ==
    [op |-> op, err |-> "", Records |-> recs, Offset |-> offset, Limit |-> limit,
     Total |-> total, TotalMatches |-> totalMatches, HasMore |-> hasMore,
     Query |-> query, parsed |-> parsed]

Failure(op, err) == [op |-> op, err |-> err]

FileLoaded(op, file) == [op |-> op, err |-> "", file |-> file]
AllText == <<"a", "l", "l">>

(***************************************************************************)
(* Record store and pagination gateway: the read handlers, as the response *)
(* they return in the current state.                                       *)
(***************************************************************************)
NoFileLoaded == currentFile = Nil \/ cache = Nil

\* A GetRecords whose default limit is the constant 50, not the cache's page
\* size (the mutant of GetRecords).
GetRecordsConstantDefault(offset, limit) ==
    IF NoFileLoaded THEN Failure("GetRecords", "ErrNoFileLoaded")
    ELSE LET c == cache[1]
             off == IF offset < 0 THEN 0 ELSE offset
             lim0 == IF limit <= 0 THEN DefaultPageSize ELSE limit
             lim == IF lim0 > MaxPageLimit THEN MaxPageLimit ELSE lim0
             totalRecords == c.totalCount
             endIndex == IF off + lim > totalRecords THEN totalRecords ELSE off + lim
         IN IF off >= totalRecords
            THEN Page("GetRecords", NoRecords, off, lim, totalRecords, 0, FALSE, <<>>, FALSE)
            ELSE Page("GetRecords", SubSeq(c.records, off + 1, endIndex), off, lim,
                      totalRecords, 0, endIndex < totalRecords, <<>>, FALSE)

GetRecords(offset, limit) ==
    IF NoFileLoaded THEN Failure("GetRecords", "ErrNoFileLoaded")
    ELSE LET c == cache[1]
             off == IF offset < 0 THEN 0 ELSE offset
             lim0 == IF limit <= 0 THEN c.pageSize ELSE limit
             lim == IF lim0 > MaxPageLimit THEN MaxPageLimit ELSE lim0
             totalRecords == c.totalCount
             endIndex == IF off + lim > totalRecords THEN totalRecords ELSE off + lim
         IN IF off >= totalRecords
            THEN Page("GetRecords", NoRecords, off, lim, totalRecords, 0, FALSE, <<>>, FALSE)
            ELSE Page("GetRecords", SubSeq(c.records, off + 1, endIndex), off, lim,
                      totalRecords, 0, endIndex < totalRecords, <<>>, FALSE)

\* query arrives already lower-cased when the search is case-insensitive.
recordMatches(record, query, caseSensitive) ==
    LET fold(x) == IF ~caseSensitive THEN ToLower(x) ELSE x
    IN \/ Contains(fold(record.RawJSON), query)
       \/ \E f \in DOMAIN record.Content : Contains(fold(Sprint(record.Content[f])), query)

\* A scan that passes caseSensitive = false to the evaluator whatever the
\* request says (the mutant of matchingRecords).
matchingRecordsIgnoringCase(options) ==
    LET recs == cache[1].records
        luceneQuery == parseLuceneQuery(options.Query)
    IN IF options.UseLucene
       THEN IF luceneQuery # Nil
            THEN SelectSeq(recs, LAMBDA r : evaluateLuceneQuery(luceneQuery, r, FALSE))
            ELSE NoRecords
       ELSE SelectSeq(recs, LAMBDA r : recordMatches(r, ToLower(options.Query), FALSE))

\* The scan of SearchRecords: the matching records, in store order.
matchingRecords(options) ==
    LET recs == cache[1].records
    IN IF options.UseLucene
       THEN LET luceneQuery == parseLuceneQuery(options.Query)
            IN IF luceneQuery # Nil
               THEN SelectSeq(recs, LAMBDA r :
                        evaluateLuceneQuery(luceneQuery, r, options.CaseSensitive))
               ELSE NoRecords
       ELSE LET query == IF ~options.CaseSensitive THEN ToLower(options.Query)
                         ELSE options.Query
            IN SelectSeq(recs, LAMBDA r :
                    IF options.SelectedField # <<>> /\ options.SelectedField # AllText
                    THEN /\ HasKey(r, options.SelectedField)
                         /\ matchFieldValue(r.Content[options.SelectedField],
                                            options.Query, options.CaseSensitive)
                    ELSE recordMatches(r, query, options.CaseSensitive))

\* "Normalize parameters": offset and limit as the scan and the page use them.
normalizeOptions(options) ==
    LET off == IF options.Offset < 0 THEN 0 ELSE options.Offset
        lim0 == IF options.Limit <= 0 THEN DefaultSearchLimit ELSE options.Limit
        lim == IF lim0 > MaxPageLimit THEN MaxPageLimit ELSE lim0
    IN [options EXCEPT !.Offset = off, !.Limit = lim]

\* "Apply pagination to matching records", options already normalized.
searchPage(options, matching) ==
    LET totalMatches == Len(matching)
        startIndex == options.Offset
        endIndex == IF startIndex + options.Limit > totalMatches THEN totalMatches
                    ELSE startIndex + options.Limit
    IN IF startIndex >= totalMatches
       THEN Page("SearchRecords", NoRecords, options.Offset, options.Limit,
                 cache[1].totalCount, totalMatches, FALSE, options.Query, options.UseLucene)
       ELSE Page("SearchRecords", SubSeq(matching, startIndex + 1, endIndex),
                 options.Offset, options.Limit, cache[1].totalCount, totalMatches,
                 endIndex < totalMatches, options.Query, options.UseLucene)

\* A SearchRecords that lacks the empty-query return (the mutant of SearchRecords).
SearchRecordsNoBlankCheck(options) ==
    IF NoFileLoaded THEN Failure("SearchRecords", "ErrNoFileLoaded")
    ELSE searchPage(normalizeOptions(options), matchingRecords(options))

SearchRecords(options) ==
    IF NoFileLoaded THEN Failure("SearchRecords", "ErrNoFileLoaded")
    ELSE IF TrimSpace(options.Query) = <<>>
    THEN Page("SearchRecords", NoRecords, options.Offset, options.Limit, 0, 0, FALSE,
              options.Query, FALSE)
    ELSE searchPage(normalizeOptions(options), matchingRecords(options))

\* A modification check that also reports a file whose modification time
\* equals the recorded one (the mutant of CheckFileModification).
CheckFileModificationNotBefore ==
    IF currentFile = Nil THEN [err |-> "ErrNoFileLoaded", modified |-> FALSE]
    ELSE IF currentFile[1].Path = ClipboardPath THEN [err |-> "", modified |-> FALSE]
    ELSE IF currentFile[1].Path # DataPath THEN [err |-> "StatFailed", modified |-> FALSE]
    ELSE [err |-> "", modified |-> disk.modTime >= currentFile[1].ModifiedAt]

\* CheckFileModification: [err, modified].
CheckFileModification ==
    IF currentFile = Nil THEN [err |-> "ErrNoFileLoaded", modified |-> FALSE]
    ELSE IF currentFile[1].Path = ClipboardPath THEN [err |-> "", modified |-> FALSE]
    ELSE IF currentFile[1].Path # DataPath THEN [err |-> "StatFailed", modified |-> FALSE]
    ELSE [err |-> "", modified |-> disk.modTime > currentFile[1].ModifiedAt]

(***************************************************************************)
(* Export re-scan: GetAllRecords reads the source again, line by line.     *)
(***************************************************************************)
\* "If there's a search query, check if record matches using Lucene syntax":
\* always case-insensitive; the query is neither trimmed nor lower-cased.
exportMatches(record, searchQuery) ==
    IF searchQuery = <<>> THEN TRUE
    ELSE IF parseLuceneQuery(searchQuery) # Nil
    THEN evaluateLuceneQuery(parseLuceneQuery(searchQuery), record, FALSE)
    ELSE recordMatches(record, searchQuery, FALSE)

\* The rest of one iteration of the scan loop, once the line is decoded.
scanDecoded(allRecords, line, dec, lineNumber, searchQuery) ==
    IF line = <<>> \/ dec.err THEN allRecords
    ELSE IF exportMatches(JSONRecord(lineNumber, dec.content, line), searchQuery)
    THEN Append(allRecords, JSONRecord(lineNumber, dec.content, line))
    ELSE allRecords

\* The scan loop of GetAllRecords; lineNumber is incremented on every path.
RECURSIVE scanAllLines(_, _, _, _)
scanAllLines(lines, lineNumber, searchQuery, allRecords) ==
    IF lineNumber > Len(lines) THEN allRecords
    ELSE scanAllLines(lines, lineNumber + 1, searchQuery,
                      scanDecoded(allRecords, TrimSpace(lines[lineNumber]),
                                  Unmarshal(TrimSpace(lines[lineNumber])),
                                  lineNumber, searchQuery))

\* GetAllRecords once the file is open: the records of `content` matching searchQuery.
scanAllRecords(content, searchQuery) ==
    scanAllLines(ScanLines(content), 1, searchQuery, NoRecords)

(***************************************************************************)
(* Line lookup, field analysis, statistics and export, as the response     *)
(* they return in the current state.                                       *)
(***************************************************************************)
\* A JSONLError that carries a message besides its kind.
LineFailure(op, err, message) == [op |-> op, err |-> err, message |-> message]

GetRecordByLineNumber(lineNumber) ==
    IF NoFileLoaded THEN Failure("GetRecordByLineNumber", "ErrNoFileLoaded")
    ELSE IF lineNumber <= 0
    THEN LineFailure("GetRecordByLineNumber", "ErrInvalidLineNum",
                     "Line number must be greater than 0")
    ELSE LET recs == cache[1].records
             hits == {k \in 1..Len(recs) : recs[k].LineNumber = lineNumber}
         IN IF hits # {}
            THEN [op |-> "GetRecordByLineNumber", err |-> "",
                  record |-> recs[CHOOSE k \in hits : \A j \in hits : k <= j]]
            ELSE LineFailure("GetRecordByLineNumber", "ErrInvalidLineNum",
                             "Record not found at specified line number")

GetRecordRange(startLine, endLine) ==
    IF NoFileLoaded THEN Failure("GetRecordRange", "ErrNoFileLoaded")
    ELSE IF startLine <= 0 \/ endLine <= 0 \/ startLine > endLine
    THEN LineFailure("GetRecordRange", "ErrInvalidLineNum", "Invalid line number range")
    ELSE [op |-> "GetRecordRange", err |-> "",
          records |-> SelectSeq(cache[1].records,
                                LAMBDA r : r.LineNumber >= startLine /\ r.LineNumber <= endLine)]

\* "Count occurrences of each field" over the cached records.
FieldCountsOf(recs) ==
    [f \in UNION {DOMAIN recs[k].Content : k \in 1..Len(recs)} |->
        Cardinality({k \in 1..Len(recs) : f \in DOMAIN recs[k].Content})]

\* The fields come out in map iteration order: the response holds them as a set.
GetCommonFields ==
    IF NoFileLoaded THEN Failure("GetCommonFields", "ErrNoFileLoaded")
    ELSE [op |-> "GetCommonFields", err |-> "",
          fields |-> CommonFieldsOf(FieldCountsOf(cache[1].records), Len(cache[1].records))]

GetAllFields ==
    IF NoFileLoaded THEN Failure("GetAllFields", "ErrNoFileLoaded")
    ELSE [op |-> "GetAllFields", err |-> "",
          fields |-> SortedKeys(DOMAIN FieldCountsOf(cache[1].records))]

\* GetFileStats re-parses the file at currentFile.Path.
GetFileStats ==
    IF currentFile = Nil THEN Failure("GetFileStats", "ErrNoFileLoaded")
    ELSE IF currentFile[1].Path # DataPath THEN Failure("GetFileStats", "ErrFileNotFound")
    ELSE [op |-> "GetFileStats", err |-> "", stats |-> ParseJSONL(disk.content).stats]

\* GetAllRecords opens currentFile.Path; only DataPath names a file.
GetAllRecords(searchQuery) ==
    IF currentFile = Nil THEN Failure("GetAllRecords", "no file loaded")
    ELSE IF currentFile[1].Path # DataPath THEN Failure("GetAllRecords", "failed to open file")
    ELSE [op |-> "GetAllRecords", err |-> "",
          records |-> scanAllRecords(disk.content, searchQuery)]

\* ExportSearchResults after os.Create: the response, with the lines written
\* to the export file (`all` is what GetAllRecords returned).
exportWritten(all, shownFields, hiddenFields) ==
    IF all.err # "" THEN Failure("ExportSearchResults", all.err)
    ELSE [op |-> "ExportSearchResults", err |-> "", path |-> now,
          lines |-> [k \in 1..Len(all.records) |->
                        getDisplayJSON(all.records[k], shownFields, hiddenFields)]]

(***************************************************************************)
(* Actions: one per handler.  A handler runs when no response is pending;  *)
(* it leaves its request in call and its response in ret.                  *)
(***************************************************************************)
\* The assignments of "Store in app state" and "Initialize cache".
Publish(file, recs) ==
    /\ currentFile' = <<file>>
    /\ records' = recs
    /\ cache' = <<RecordCache(recs, DefaultPageSize, Len(recs))>>

\* LoadJSONLFile from "Create file info" on, parsed being what ParseJSONL returned.
StoreParsedFile(op, filePath, parsed) ==
    LET file == JSONLFile(filePath, filePath, Len(disk.content),
                          parsed.stats.ValidRecords, now, disk.modTime)
    IN /\ Publish(file, parsed.records)
       /\ ret' = FileLoaded(op, file)

LoadFileBody(op, filePath) ==
    IF filePath = "" \/ filePath # DataPath
    THEN /\ ret' = Failure(op, "ErrFileNotFound")
         /\ UNCHANGED appVars
    ELSE StoreParsedFile(op, filePath, ParseJSONL(disk.content))

LoadJSONLFile(filePath) ==
    /\ Idle
    /\ call' = [op |-> "LoadJSONLFile", filePath |-> filePath]
    /\ LoadFileBody("LoadJSONLFile", filePath)
    /\ UNCHANGED envVars

\* A clipboard load that stores the parse result before it checks that a
\* valid record was found (the mutant of StoreParsedClipboard).
StoreParsedClipboardBeforeCheck(parsed) ==
    LET file == JSONLFile("Clipboard Content", ClipboardPath, parsed.stats.FileSize,
                          parsed.stats.ValidRecords, now, now)
    IN /\ Publish(file, parsed.records)
       /\ ret' = IF parsed.stats.ValidRecords = 0
                 THEN Failure("LoadJSONLFromClipboard", "ErrInvalidJSONL")
                 ELSE FileLoaded("LoadJSONLFromClipboard", file)

\* LoadJSONLFromClipboard from the ValidRecords check on, parsed being what
\* ParseJSONLFromString returned.
StoreParsedClipboard(parsed) ==
    LET file == JSONLFile("Clipboard Content", ClipboardPath, parsed.stats.FileSize,
                          parsed.stats.ValidRecords, now, now)
    IN IF parsed.stats.ValidRecords = 0
       THEN /\ ret' = Failure("LoadJSONLFromClipboard", "ErrInvalidJSONL")
            /\ UNCHANGED appVars
       ELSE /\ Publish(file, parsed.records)
            /\ ret' = FileLoaded("LoadJSONLFromClipboard", file)

\* clipboardOK, clipboardContent: what runtime.ClipboardGetText returns.
LoadJSONLFromClipboard(clipboardOK, clipboardContent) ==
    /\ Idle
    /\ call' = [op |-> "LoadJSONLFromClipboard"]
    /\ IF ~clipboardOK
       THEN /\ ret' = Failure("LoadJSONLFromClipboard", "ClipboardFailed")
            /\ UNCHANGED appVars
       ELSE IF TrimSpace(clipboardContent) = <<>>
       THEN /\ ret' = Failure("LoadJSONLFromClipboard", "ErrClipboardEmpty")
            /\ UNCHANGED appVars
       ELSE StoreParsedClipboard(ParseJSONLFromString(clipboardContent))
    /\ UNCHANGED envVars

ReloadCurrentFile ==
    /\ Idle
    /\ call' = [op |-> "ReloadCurrentFile"]
    /\ IF currentFile = Nil
       THEN /\ ret' = Failure("ReloadCurrentFile", "ErrNoFileLoaded")
            /\ UNCHANGED appVars
       ELSE IF currentFile[1].Path = ClipboardPath
       THEN /\ ret' = Failure("ReloadCurrentFile", "CannotReloadClipboard")
            /\ UNCHANGED appVars
       ELSE IF CheckFileModification.err # ""
       THEN /\ ret' = Failure("ReloadCurrentFile", CheckFileModification.err)
            /\ UNCHANGED appVars
       ELSE IF ~CheckFileModification.modified
       THEN /\ ret' = FileLoaded("ReloadCurrentFile", currentFile[1])
            /\ UNCHANGED appVars
       ELSE LoadFileBody("ReloadCurrentFile", currentFile[1].Path)
    /\ UNCHANGED envVars

\* A SetPageSize that applies the default but not the cap (the mutant of
\* SetPageSize).
SetPageSizeUncapped(pageSize) ==
    /\ Idle
    /\ call' = [op |-> "SetPageSize", pageSize |-> pageSize]
    /\ IF cache = Nil
       THEN /\ ret' = Failure("SetPageSize", "ErrNoFileLoaded")
            /\ UNCHANGED cache
       ELSE LET p == IF pageSize <= 0 THEN DefaultPageSize ELSE pageSize
            IN /\ cache' = <<[cache[1] EXCEPT !.pageSize = p]>>
               /\ ret' = [op |-> "SetPageSize", err |-> ""]
    /\ UNCHANGED <<currentFile, records, envVars>>

SetPageSize(pageSize) ==
    /\ Idle
    /\ call' = [op |-> "SetPageSize", pageSize |-> pageSize]
    /\ IF cache = Nil
       THEN /\ ret' = Failure("SetPageSize", "ErrNoFileLoaded")
            /\ UNCHANGED cache
       ELSE LET p0 == IF pageSize <= 0 THEN DefaultPageSize ELSE pageSize
                p == IF p0 > MaxPageLimit THEN MaxPageLimit ELSE p0
            IN /\ cache' = <<[cache[1] EXCEPT !.pageSize = p]>>
               /\ ret' = [op |-> "SetPageSize", err |-> ""]
    /\ UNCHANGED <<currentFile, records, envVars>>

CallGetRecords(offset, limit) ==
    /\ Idle
    /\ call' = [op |-> "GetRecords", offset |-> offset, limit |-> limit]
    /\ ret' = GetRecords(offset, limit)
    /\ UNCHANGED <<appVars, envVars>>

CallSearchRecords(options) ==
    /\ Idle
    /\ call' = [op |-> "SearchRecords", options |-> options]
    /\ ret' = SearchRecords(options)
    /\ UNCHANGED <<appVars, envVars>>

\* The caller takes the response (await of the bound method resolves).
Receive ==
    /\ ~Idle
    /\ call' = NoCall
    /\ ret' = NoRet
    /\ UNCHANGED <<appVars, envVars>>

CallGetRecordByLineNumber(lineNumber) ==
    /\ Idle
    /\ call' = [op |-> "GetRecordByLineNumber", lineNumber |-> lineNumber]
    /\ ret' = GetRecordByLineNumber(lineNumber)
    /\ UNCHANGED <<appVars, envVars>>

CallGetRecordRange(startLine, endLine) ==
    /\ Idle
    /\ call' = [op |-> "GetRecordRange", startLine |-> startLine, endLine |-> endLine]
    /\ ret' = GetRecordRange(startLine, endLine)
    /\ UNCHANGED <<appVars, envVars>>

CallGetCommonFields ==
    /\ Idle
    /\ call' = [op |-> "GetCommonFields"]
    /\ ret' = GetCommonFields
    /\ UNCHANGED <<appVars, envVars>>

CallGetAllFields ==
    /\ Idle
    /\ call' = [op |-> "GetAllFields"]
    /\ ret' = GetAllFields
    /\ UNCHANGED <<appVars, envVars>>

CallGetFileStats ==
    /\ Idle
    /\ call' = [op |-> "GetFileStats"]
    /\ ret' = GetFileStats
    /\ UNCHANGED <<appVars, envVars>>

CallCheckFileModification ==
    /\ Idle
    /\ call' = [op |-> "CheckFileModification"]
    /\ ret' = [op |-> "CheckFileModification", err |-> CheckFileModification.err,
               modified |-> CheckFileModification.modified]
    /\ UNCHANGED <<appVars, envVars>>

CallGetAllRecords(searchQuery) ==
    /\ Idle
    /\ call' = [op |-> "GetAllRecords", query |-> searchQuery]
    /\ ret' = GetAllRecords(searchQuery)
    /\ UNCHANGED <<appVars, envVars>>

\* The export file is created (or truncated) before the records are read;
\* its name holds the time of the call.
ExportSearchResults(searchQuery, shownFields, hiddenFields) ==
    /\ Idle
    /\ call' = [op |-> "ExportSearchResults", query |-> searchQuery,
                shown |-> shownFields, hidden |-> hiddenFields]
    /\ downloads' = downloads \cup {now}
    /\ ret' = exportWritten(GetAllRecords(searchQuery), shownFields, hiddenFields)
    /\ UNCHANGED <<appVars, disk, now, ui, threads>>

\* The file at DataPath is rewritten on disk: new content, later ModTime.
ModifyFile(content) ==
    /\ Idle
    /\ now < MaxClock
    /\ now' = now + 1
    /\ disk' = [content |-> content, modTime |-> now + 1]
    /\ UNCHANGED <<appVars, downloads, ui, threads, call, ret>>

SearchInputs ==
    {SearchOptions(q, cs, TRUE, <<>>, o, l) :
        q \in QueryInputs, cs \in BOOLEAN, o \in OffsetInputs, l \in LimitInputs}
    \cup
    {SearchOptions(q, cs, FALSE, f, o, l) :
        q \in QueryInputs, cs \in BOOLEAN, f \in SelectedFieldInputs,
        o \in OffsetInputs, l \in LimitInputs}

Init ==
    /\ currentFile = Nil
    /\ records = NoRecords
    /\ cache = Nil
    /\ disk \in {[content |-> c, modTime |-> 0] : c \in FileContents}
    /\ now = 0
    /\ downloads = {}
    /\ ui = NoUI
    /\ threads = NoThreads
    /\ call = NoCall
    /\ ret = NoRet

Next ==
    \/ \E filePath \in PathInputs : LoadJSONLFile(filePath)
    \/ \E c \in ClipboardContents : LoadJSONLFromClipboard(TRUE, c)
    \/ LoadJSONLFromClipboard(FALSE, <<>>)
    \/ ReloadCurrentFile
    \/ \E pageSize \in PageSizeInputs : SetPageSize(pageSize)
    \/ \E offset \in OffsetInputs, limit \in LimitInputs : CallGetRecords(offset, limit)
    \/ \E options \in SearchInputs : CallSearchRecords(options)
    \/ \E lineNumber \in LineInputs : CallGetRecordByLineNumber(lineNumber)
    \/ \E startLine \in LineInputs, endLine \in LineInputs :
            CallGetRecordRange(startLine, endLine)
    \/ CallGetCommonFields
    \/ CallGetAllFields
    \/ CallGetFileStats
    \/ CallCheckFileModification
    \/ \E q \in QueryInputs : CallGetAllRecords(q)
    \/ \E q \in QueryInputs, v \in VisibilityInputs :
            ExportSearchResults(q, v.shown, v.hidden)
    \/ Receive
    \/ \E c \in FileContents : ModifyFile(c)

Spec == Init /\ [][Next]_vars
(***************************************************************************)
(* Properties of the pagination gateway and the record store (Spec).       *)
(***************************************************************************)
Min(a, b) == IF a < b THEN a ELSE b
Max(a, b) == IF a > b THEN a ELSE b

\* Positions [o, o+l) of a sequence, clipped to its length.
Window(seq, o, l) == [i \in 1..(Min(o + l, Len(seq)) - o) |-> seq[o + i]]

\* The store records that the compiled query accepts, in store order.
LuceneMatches(options) ==
    SelectSeq(cache[1].records, LAMBDA r :
        evaluateLuceneQuery(parseLuceneQuery(options.Query), r, options.CaseSensitive))

ClampedSearchLimit(l) == IF l <= 0 THEN DefaultSearchLimit ELSE Min(l, MaxPageLimit)

SearchServed == ret.op = "SearchRecords" /\ ret.err = ""

NonBlankSearch == SearchServed /\ TrimSpace(call.options.Query) # <<>>

LucenePageCorrect ==
    /\ ret.TotalMatches = Len(LuceneMatches(call.options))
    /\ ret.Records = Window(LuceneMatches(call.options), Max(call.options.Offset, 0),
                            ClampedSearchLimit(call.options.Limit))

\* C1 as stated: every search with a non-blank query reports as totalMatches
\* the number of store records the compiled query accepts, and returns those
\* records, in store order, at positions [offset, offset+limit) after clamping.
C1_EverySearchIsLucene == NonBlankSearch => LucenePageCorrect

\* C1 amended: the same, for every search with a non-blank query whose
\* useLucene option is set (a search with useLucene unset does not compile the
\* query: it matches the query text as a plain substring).
C1_LuceneSearchPage == (NonBlankSearch /\ call.options.UseLucene) => LucenePageCorrect

C1_Witness ==
    /\ NonBlankSearch
    /\ call.options.UseLucene
    /\ call.options.Offset = 1
    /\ call.options.Limit = 1
    /\ ret.TotalMatches = 2
    /\ Len(ret.Records) = 1
    /\ ret.TotalMatches < ret.Total

\* C2: a search with an empty or whitespace-only query returns no records,
\* totalMatches = 0 and hasMore = false, whatever the offset, the limit and the
\* loaded store, and does not call parseLuceneQuery.
C2_BlankQueryEmptyPage ==
    (SearchServed /\ TrimSpace(call.options.Query) = <<>>) =>
        /\ ret.Records = NoRecords
        /\ ret.TotalMatches = 0
        /\ ~ret.HasMore
        /\ ~ret.parsed

C2_Witness ==
    /\ SearchServed
    /\ call.options.Query = QueryBlank
    /\ call.options.UseLucene
    /\ call.options.Offset > 0
    /\ cache[1].totalCount = 3
    /\ ret.TotalMatches = 0

\* C3 as stated: every page returned by SearchRecords has
\* hasMore = (offset + number of returned records < totalMatches), offset being
\* the offset the page reports.
C3_HasMoreFormula ==
    SearchServed => (ret.HasMore = (ret.Offset + Len(ret.Records) < ret.TotalMatches))

\* C4: with a source loaded, GetRecords(offset, limit) returns the store
\* records at positions [o, min(o+l, total)), o = max(offset, 0) and l the
\* limit clamped into 1..1000 (a limit <= 0 becoming the current page size);
\* o >= total gives no records, hasMore = false and no error; a negative
\* offset gives the page of offset 0.
C4_GetRecordsWindow ==
    (ret.op = "GetRecords" /\ ~NoFileLoaded) =>
        LET o == Max(call.offset, 0)
            l == IF call.limit <= 0 THEN cache[1].pageSize ELSE Min(call.limit, MaxPageLimit)
            total == Len(cache[1].records)
        IN /\ ret.err = ""
           /\ l \in 1..MaxPageLimit
           /\ ret.Limit = l
           /\ ret.Records = Window(cache[1].records, o, l)
           /\ (o >= total => ret.Records = NoRecords /\ ~ret.HasMore)
           /\ (call.offset < 0 => ret = GetRecords(0, call.limit))

C4_Witness ==
    /\ ret.op = "GetRecords"
    /\ ~NoFileLoaded
    /\ call.offset < 0
    /\ call.limit = 0
    /\ cache[1].pageSize = 2
    /\ Len(ret.Records) = 2
    /\ ret.HasMore
(***************************************************************************)
(* The compiler, the evaluator, the wildcard matcher and the ingestor as   *)
(* functions: each specification below draws one input in its initial      *)
(* state and applies the function to it; the session stays unloaded.       *)
(***************************************************************************)
Unloaded ==
    /\ currentFile = Nil
    /\ records = NoRecords
    /\ cache = Nil
    /\ disk = [content |-> FileA, modTime |-> 0]
    /\ now = 0
    /\ downloads = {}
    /\ ui = NoUI
    /\ threads = NoThreads

Pending(op) == call.op = op /\ ret = NoRet

\* ---- parseLuceneQuery ----
MaxOperands == 3
MaxAtomLen == 4

AtomChars == {"a", ":", QUOTE, "*", " "}

OperandInputs == {<<"a">>, <<"N","O","T"," ","a">>, <<"k",":","a">>, <<>>, <<"\"","a"," ","b","\"">>, <<" ","b"," ">>}

RECURSIVE QueriesOf(_)
QueriesOf(n) ==
    IF n = 1 THEN OperandInputs
    ELSE {q \o op \o x : q \in QueriesOf(n - 1), op \in {OrText, AndText}, x \in OperandInputs}

ExampleMixed == <<"n","a","m","e",":","J","o","h","n"," ","A","N","D"," ","a","g","e",":","3","0"," ","O","R"," ","r","o","l","e",":","a","d","m","i","n">>
ExampleQuotedColon == <<"\"","a",":","b","\"">>
ExampleQueries == {ExampleMixed, ExampleQuotedColon, <<"n","a","m","e",":","J","o","h","n"," ","A","N","D"," ","a","g","e",":","3","0"," ","A","N","D"," ","c","i","t","y",":","N","e","w","Y","o","r","k">>, <<"n","a","m","e",":","J","o","h","n"," ","O","R"," ","n","a","m","e",":","J","a","n","e"," ","O","R"," ","n","a","m","e",":","B","o","b">>}

ParseInputs ==
    UNION {QueriesOf(n) : n \in 1..MaxOperands}
    \cup UNION {[1..k -> AtomChars] : k \in 0..MaxAtomLen}
    \cup ExampleQueries

InitParse ==
    /\ Unloaded
    /\ call \in {[op |-> "parseLuceneQuery", query |-> q] : q \in ParseInputs}
    /\ ret = NoRet

CallParseLuceneQuery ==
    /\ Pending("parseLuceneQuery")
    /\ ret' = [op |-> "parseLuceneQuery", node |-> parseLuceneQuery(call.query)]
    /\ UNCHANGED <<appVars, envVars, call>>

NextParse == CallParseLuceneQuery

SpecParse == InitParse /\ [][NextParse]_vars

\* ---- evaluateLuceneQuery ----
MaxOperators == 2

RecordOf(line) == JSONRecord(1, Unmarshal(line).content, line)

TreeRecord == RecordOf(<<"{","\"","a","\"",":","\"","X","y","\"","}">>)

Leaf(type, field, value) == LuceneQuery(type, field, value, Nil, Nil, Nil)

\* y occurs in the record's line, x only when case is ignored; "fuzzy" is no
\* node type of the evaluator.
TreeLeaves == {Leaf("term", <<>>, <<"y">>), Leaf("term", <<>>, <<"x">>), Leaf("fuzzy", <<>>, <<"y">>)}

\* The trees (Nil or <<node>>) with exactly n operator nodes.
RECURSIVE TreesWith(_)
TreesWith(n) ==
    IF n = 0 THEN {Nil} \cup {<<l>> : l \in TreeLeaves}
    ELSE {<<LuceneQuery("not", <<>>, <<>>, Nil, Nil, t)>> : t \in TreesWith(n - 1)}
         \cup UNION {
                {<<LuceneQuery(type, <<>>, <<>>, l, r, Nil)>> :
                    type \in {"and", "or"}, l \in TreesWith(k), r \in TreesWith(n - 1 - k)}
                : k \in 0..(n - 1)}

LeafRecords == {RecordOf(<<"{","\"","a","\"",":","\"","X","y","\"","}">>), RecordOf(<<"{","\"","a","\"",":","n","u","l","l","}">>), RecordOf(<<"{","\"","a","\"",":","\"","\"","}">>),
                RecordOf(<<"{","\"","b","\"",":","1","2","}">>), RecordOf(<<"{","\"","\"",":","\"","x","\"","}">>)}

LeafValues == {<<>>, <<"x">>, <<"X">>, <<"n", "i", "l">>, <<"1">>}

LeafInputs ==
    {<<Leaf(type, field, value)>> :
        type \in {"term", "field", "phrase"}, field \in {<<>>, <<"a">>, <<"b">>},
        value \in LeafValues}

EvalInputs ==
    {[op |-> "evaluateLuceneQuery", query |-> t, record |-> TreeRecord, caseSensitive |-> cs] :
        t \in UNION {TreesWith(n) : n \in 0..MaxOperators}, cs \in BOOLEAN}
    \cup
    {[op |-> "evaluateLuceneQuery", query |-> t, record |-> r, caseSensitive |-> cs] :
        t \in LeafInputs, r \in LeafRecords, cs \in BOOLEAN}

InitEval ==
    /\ Unloaded
    /\ call \in EvalInputs
    /\ ret = NoRet

CallEvaluateLuceneQuery ==
    /\ Pending("evaluateLuceneQuery")
    /\ ret' = [op |-> "evaluateLuceneQuery",
               result |-> evaluateLuceneQuery(call.query, call.record, call.caseSensitive)]
    /\ UNCHANGED <<appVars, envVars, call>>

NextEval == CallEvaluateLuceneQuery

SpecEval == InitEval /\ [][NextEval]_vars

\* ---- matchWildcard ----
MaxTextLen == 3
MaxPatternLen == 3

TextChars == {"a", "B", "*"}
PatternChars == {"a", "b", "*", "?"}

WildcardInputs ==
    {[op |-> "matchWildcard", text |-> x, pattern |-> p, caseSensitive |-> cs] :
        x \in UNION {[1..k -> TextChars] : k \in 0..MaxTextLen},
        p \in UNION {[1..k -> PatternChars] : k \in 0..MaxPatternLen},
        cs \in BOOLEAN}

InitWildcard ==
    /\ Unloaded
    /\ call \in WildcardInputs
    /\ ret = NoRet

CallMatchWildcard ==
    /\ Pending("matchWildcard")
    /\ ret' = [op |-> "matchWildcard",
               result |-> matchWildcard(call.text, call.pattern, call.caseSensitive)]
    /\ UNCHANGED <<appVars, envVars, call>>

NextWildcard == CallMatchWildcard

SpecWildcard == InitWildcard /\ [][NextWildcard]_vars

\* ---- ParseJSONL / ParseJSONLFromString ----
MaxLines == 3

IngestLines == {<<"{","\"","a","\"",":","1","}">>, <<>>, NullText, <<"[","1","]">>, <<"\"","s","\"">>, <<"7">>, TrueText, <<"{","\"","a","\"",":">>, <<" ","{","\"","b","\"",":","\"","x","\"","}"," ">>}

IngestContents ==
    {Join(ls, <<"\n">>) : ls \in UNION {[1..k -> IngestLines] : k \in 0..MaxLines}}

IngestQuery == <<"a",":","1">>

IngestInputs ==
    {[op |-> o, content |-> c, query |-> <<>>] :
        o \in {"ParseJSONL", "ParseJSONLFromString", "GetAllRecords"}, c \in IngestContents}
    \cup {[op |-> "GetAllRecords", content |-> c, query |-> IngestQuery] : c \in IngestContents}

InitIngest ==
    /\ Unloaded
    /\ call \in IngestInputs
    /\ ret = NoRet

CallParseJSONL ==
    /\ Pending("ParseJSONL")
    /\ ret' = [op |-> "ParseJSONL", out |-> ParseJSONL(call.content)]
    /\ UNCHANGED <<appVars, envVars, call>>

CallParseJSONLFromString ==
    /\ Pending("ParseJSONLFromString")
    /\ ret' = [op |-> "ParseJSONLFromString", out |-> ParseJSONLFromString(call.content)]
    /\ UNCHANGED <<appVars, envVars, call>>

\* The scan of GetAllRecords over a file holding call.content.
CallGetAllRecordsScan ==
    /\ Pending("GetAllRecords")
    /\ ret' = [op |-> "GetAllRecords",
               out |-> [records |-> scanAllRecords(call.content, call.query)]]
    /\ UNCHANGED <<appVars, envVars, call>>

NextIngest == CallParseJSONL \/ CallParseJSONLFromString \/ CallGetAllRecordsScan

SpecIngest == InitIngest /\ [][NextIngest]_vars
\* ---- getDisplayJSON and displayJSON ----
MaxFieldList == 2

ProjectLines == {<<"{","\"","b","\"",":","1",",","\"","a","\"",":","\"","x","\"","}">>, <<"{","\"","a","\"",":","1",",","\"","b","\"",":","2",",","\"","c","\"",":","3","}">>, <<"n","u","l","l">>, <<"{","}">>, <<"{","\"","c","\"",":","t","r","u","e",",","\"","a","\"",":","n","u","l","l","}">>}

ProjectFields == {<<"a">>, <<"b">>, <<"c">>}

FieldLists == UNION {[1..k -> ProjectFields] : k \in 0..MaxFieldList}

ProjectInputs ==
    {[op |-> o, record |-> RecordOf(l), shown |-> sh, hidden |-> hi] :
        o \in {"getDisplayJSON", "displayJSON"}, l \in ProjectLines,
        sh \in FieldLists, hi \in FieldLists}

InitProject ==
    /\ Unloaded
    /\ call \in ProjectInputs
    /\ ret = NoRet

CallGetDisplayJSON ==
    /\ Pending("getDisplayJSON")
    /\ ret' = [op |-> "getDisplayJSON",
               text |-> getDisplayJSON(call.record, call.shown, call.hidden)]
    /\ UNCHANGED <<appVars, envVars, call>>

CallDisplayJSON ==
    /\ Pending("displayJSON")
    /\ ret' = [op |-> "displayJSON",
               text |-> displayJSON(call.record, call.shown, call.hidden)]
    /\ UNCHANGED <<appVars, envVars, call>>

NextProject == CallGetDisplayJSON \/ CallDisplayJSON

SpecProject == InitProject /\ [][NextProject]_vars

(***************************************************************************)
(* Properties of the query compiler (SpecParse).                           *)
(***************************************************************************)
Parsed == ret.op = "parseLuceneQuery"

\* Left-associative tree of the given operator over a non-empty sequence of
\* operands: ((n1 op n2) op n3) ...
RECURSIVE LeftAssoc(_, _)
LeftAssoc(type, nodes) ==
    IF Len(nodes) = 1 THEN nodes[1]
    ELSE <<LuceneQuery(type, <<>>, <<>>, LeftAssoc(type, SubSeq(nodes, 1, Len(nodes) - 1)),
                       nodes[Len(nodes)], Nil)>>

\* unary := "NOT " unary | atom
RECURSIVE UnaryOf(_)
UnaryOf(u) ==
    IF u = <<>> THEN Nil
    ELSE IF HasPrefix(u, NotText)
    THEN <<LuceneQuery("not", <<>>, <<>>, Nil, Nil, UnaryOf(TrimSpace(SubSeq(u, 5, Len(u)))))>>
    ELSE <<parseAtom(u)>>

\* andGroup := unary (" AND " unary)*
AndGroupOf(g) ==
    IF g = <<>> THEN Nil
    ELSE LET parts == Split(g, AndText)
         IN LeftAssoc("and", [i \in 1..Len(parts) |-> UnaryOf(TrimSpace(parts[i]))])

\* query := andGroup (" OR " andGroup)*
OrGroupOf(q) ==
    IF TrimSpace(q) = <<>> THEN Nil
    ELSE LET parts == Split(TrimSpace(q), OrText)
         IN LeftAssoc("or", [i \in 1..Len(parts) |-> AndGroupOf(TrimSpace(parts[i]))])

FieldLeaf(field, value) == <<Leaf("field", field, value)>>

ExampleMixedTree ==
    <<LuceneQuery("or", <<>>, <<>>,
        <<LuceneQuery("and", <<>>, <<>>, FieldLeaf(<<"n","a","m","e">>, <<"J","o","h","n">>), FieldLeaf(<<"a","g","e">>, <<"3","0">>), Nil)>>,
        FieldLeaf(<<"r","o","l","e">>, <<"a","d","m","i","n">>), Nil)>>

\* C5: the compiled query is the left-associative OR of its " OR "-separated
\* parts, each the left-associative AND of its " AND "-separated parts, each
\* of those an atom optionally under "NOT "; in particular
\* "name:John AND age:30 OR role:admin" is (name:John AND age:30) OR role:admin.
C5_Precedence ==
    Parsed =>
        /\ ret.node = OrGroupOf(call.query)
        /\ (call.query = ExampleMixed => ret.node = ExampleMixedTree)

C5_Witness ==
    /\ Parsed
    /\ call.query = ExampleMixed
    /\ ret.node[1].Type = "or"
    /\ ret.node[1].Left[1].Type = "and"
    /\ ret.node[1].Right[1].Type = "field"

OperatorFree(q) == ~Contains(q, OrText) /\ ~Contains(q, AndText) /\ ~HasPrefix(q, NotText)

Quoted(q) == HasPrefix(q, <<QUOTE>>) /\ HasSuffix(q, <<QUOTE>>) /\ Len(q) > 1

\* field:"..." : the text after the first colon is a quoted value.
FieldPhraseForm(q) == Contains(q, <<":">>) /\ Quoted(TrimSpace(SplitN2(q, <<":">>)[2]))

\* C6 as stated: an operator-free query that begins and ends with a double
\* quote, is longer than one character and is not of the form field:"...",
\* compiles to a phrase node without field whose value is the text between
\* the quotes, whatever that text contains.
C6_QuotedIsPhrase ==
    (Parsed /\ OperatorFree(call.query) /\ Quoted(call.query) /\ ~FieldPhraseForm(call.query))
        => ret.node = <<Leaf("phrase", <<>>, SubSeq(call.query, 2, Len(call.query) - 1))>>

(***************************************************************************)
(* Properties of the evaluator (SpecEval).                                 *)
(***************************************************************************)
Evaluated == ret.op = "evaluateLuceneQuery"

LeafTypes == {"field", "phrase", "wildcard", "term"}

\* The truth value of a tree, from the matches of its leaves.
RECURSIVE TruthOf(_, _, _)
TruthOf(query, record, caseSensitive) ==
    IF query = Nil THEN FALSE
    ELSE LET q == query[1]
         IN CASE q.Type = "and" ->
                    TruthOf(q.Left, record, caseSensitive) /\ TruthOf(q.Right, record, caseSensitive)
              [] q.Type = "or" ->
                    TruthOf(q.Left, record, caseSensitive) \/ TruthOf(q.Right, record, caseSensitive)
              [] q.Type = "not" -> ~TruthOf(q.Query, record, caseSensitive)
              [] q.Type \in LeafTypes -> evaluateLuceneQuery(query, record, caseSensitive)
              [] OTHER -> FALSE

\* C7: evaluation is truth-functional over trees of any depth: nil and
\* unknown node types are false, and = both children, or = at least one
\* child, not = child false.
C7_TruthFunctional ==
    Evaluated => ret.result = TruthOf(call.query, call.record, call.caseSensitive)

C7_Witness ==
    /\ Evaluated
    /\ call.query # Nil
    /\ call.query[1].Type = "not"
    /\ call.query[1].Query # Nil
    /\ call.query[1].Query[1].Type = "or"
    /\ call.query[1].Query[1].Left = Nil
    /\ call.query[1].Query[1].Right # Nil
    /\ call.query[1].Query[1].Right[1].Type = "fuzzy"
    /\ ret.result

ContainsFold(target, value, caseSensitive) ==
    IF caseSensitive THEN Contains(target, value)
    ELSE Contains(ToLower(target), ToLower(value))

LeafEvaluated ==
    Evaluated /\ call.query # Nil /\ call.query[1].Type \in {"term", "field", "phrase"}

\* C8 as stated: a leaf naming a field is false on a record lacking the key;
\* otherwise it matches iff the stringified field value (the raw line when it
\* names no field) contains the leaf's value, case folded unless caseSensitive.
C8_LeafIsContainment ==
    LeafEvaluated =>
        LET q == call.query[1]
            r == call.record
        IN ret.result =
            IF q.Field # <<>>
            THEN /\ HasKey(r, q.Field)
                 /\ ContainsFold(Sprint(r.Content[q.Field]), q.Value, call.caseSensitive)
            ELSE ContainsFold(r.RawJSON, q.Value, call.caseSensitive)

\* C8 amended: a field leaf, and a term or phrase leaf naming a field, is
\* false on a record lacking the key (a field leaf looks its field up even
\* when the name is empty); on a present key a field or term leaf is false
\* for a JSON null value and otherwise matches iff the stringified value
\* contains the leaf's value; a phrase leaf matches iff its target (the
\* stringified value, null being "<nil>", or the raw line without field) is
\* non-empty and contains the value; a term leaf without field likewise on the
\* raw line; case is folded on both sides unless caseSensitive.
C8_LeafMatch ==
    LeafEvaluated =>
        LET q == call.query[1]
            r == call.record
            cs == call.caseSensitive
        IN ret.result =
            IF q.Type = "field" \/ q.Field # <<>>
            THEN /\ HasKey(r, q.Field)
                 /\ IF q.Type = "phrase"
                    THEN /\ Sprint(r.Content[q.Field]) # <<>>
                         /\ ContainsFold(Sprint(r.Content[q.Field]), q.Value, cs)
                    ELSE /\ r.Content[q.Field].kind # "null"
                         /\ ContainsFold(Sprint(r.Content[q.Field]), q.Value, cs)
            ELSE r.RawJSON # <<>> /\ ContainsFold(r.RawJSON, q.Value, cs)

C8_Witness ==
    /\ LeafEvaluated
    /\ call.query[1].Type = "field"
    /\ call.query[1].Field = <<"a">>
    /\ call.query[1].Value = <<"n", "i", "l">>
    /\ HasKey(call.record, <<"a">>)
    /\ call.record.Content[<<"a">>].kind = "null"
    /\ ~ret.result

(***************************************************************************)
(* Properties of the wildcard matcher (SpecWildcard).                      *)
(***************************************************************************)
WildcardMatched == ret.op = "matchWildcard"

Star == <<"*">>

\* The four shapes, on already folded text and pattern; `fallback` is the
\* text that an "other" pattern must be contained as.
ShapeMatch(x, p, fallback) ==
    IF HasPrefix(p, Star) /\ HasSuffix(p, Star) /\ Len(p) > 1
    THEN Contains(x, SubSeq(p, 2, Len(p) - 1))
    ELSE IF HasPrefix(p, Star) THEN HasSuffix(x, SubSeq(p, 2, Len(p)))
    ELSE IF HasSuffix(p, Star) THEN HasPrefix(x, SubSeq(p, 1, Len(p) - 1))
    ELSE Contains(x, fallback)

Fold(x) == IF call.caseSensitive THEN x ELSE ToLower(x)

\* C9 as stated: p* = starts with p, *s = ends with s, *m* = contains m, any
\* other pattern = contains the pattern as a plain substring; an empty text
\* matches nothing.
C9_OtherIsPlainSubstring ==
    WildcardMatched =>
        ret.result = (/\ call.text # <<>>
                      /\ ShapeMatch(Fold(call.text), Fold(call.pattern), Fold(call.pattern)))

\* C9 amended: as stated, except that any other pattern matches iff the text
\* contains the pattern with every `*` removed (`?` stays a literal character).
C9_OtherIsStarStripped ==
    WildcardMatched =>
        ret.result = (/\ call.text # <<>>
                      /\ ShapeMatch(Fold(call.text), Fold(call.pattern),
                                    RemoveChar(Fold(call.pattern), "*")))

C9_Witness ==
    /\ WildcardMatched
    /\ call.pattern = <<"a", "*", "b">>
    /\ call.text = <<"a", "B">>
    /\ ~call.caseSensitive
    /\ ret.result

(***************************************************************************)
(* Properties of the ingestor (SpecIngest).                                *)
(***************************************************************************)
Ingested == ret.op \in {"ParseJSONL", "ParseJSONLFromString"}

IsScalarJSON(x) == ScanValue(x, 1).ok /\ ScanValue(x, 1).next = Len(x) + 1

\* A JSON array of scalars.
IsArrayJSON(x) ==
    /\ Len(x) >= 2
    /\ x[1] = "["
    /\ x[Len(x)] = "]"
    /\ LET inner == TrimSpace(SubSeq(x, 2, Len(x) - 1))
           items == Split(inner, <<",">>)
       IN inner = <<>> \/ \A i \in 1..Len(items) : IsScalarJSON(TrimSpace(items[i]))

NonObjectJSON(x) == IsScalarJSON(x) \/ IsArrayJSON(x)

SeqRange(q) == {q[i] : i \in 1..Len(q)}

\* C10 as stated: every non-blank line whose trimmed text is a valid JSON
\* value other than an object is listed in invalidLines and yields no record.
C10_NonObjectLinesInvalid ==
    Ingested =>
        LET lines == Split(call.content, <<"\n">>)
        IN \A i \in 1..Len(lines) :
            NonObjectJSON(TrimSpace(lines[i])) =>
                /\ i \in SeqRange(ret.out.stats.InvalidLines)
                /\ \A k \in 1..Len(ret.out.records) : ret.out.records[k].LineNumber # i
\* Line numbers of the lines of the request's content that hold a record which
\* the request's query (empty for the two parsers) selects.
StoredLines ==
    LET lines == Split(call.content, <<"\n">>)
    IN {i \in 1..Len(lines) :
            /\ TrimSpace(lines[i]) # <<>>
            /\ ~Unmarshal(TrimSpace(lines[i])).err
            /\ exportMatches(JSONRecord(i, Unmarshal(TrimSpace(lines[i])).content,
                                        TrimSpace(lines[i])), call.query)}

Scanned == ret.op \in {"ParseJSONL", "ParseJSONLFromString", "GetAllRecords"}

\* C11: every record returned by file ingestion, clipboard ingestion and the
\* export re-scan carries the 1-based position of its line in the source
\* (blank and invalid lines counted): the numbers are exactly the positions
\* of the record lines, strictly increasing in store order, and each record's
\* raw text is the trimmed line at that position.
C11_LineNumberIsPosition ==
    Scanned =>
        LET lines == Split(call.content, <<"\n">>)
            recs == ret.out.records
        IN /\ {recs[k].LineNumber : k \in 1..Len(recs)} = StoredLines
           /\ \A k \in 1..Len(recs) :
                /\ recs[k].LineNumber \in 1..Len(lines)
                /\ recs[k].RawJSON = TrimSpace(lines[recs[k].LineNumber])
                /\ k > 1 => recs[k - 1].LineNumber < recs[k].LineNumber

C11_Witness ==
    /\ Scanned
    /\ Len(ret.out.records) = 1
    /\ ret.out.records[1].LineNumber = 3
    /\ LET lines == Split(call.content, <<"\n">>)
       IN /\ Len(lines) = 3
          /\ TrimSpace(lines[1]) = <<>>
          /\ Unmarshal(TrimSpace(lines[2])).err
\* The lines of a text: a final newline ends the last line and starts no new one.
HasBlankLine(content) ==
    \E i \in 1..Len(ScanLines(content)) : TrimSpace(ScanLines(content)[i]) = <<>>

\* C12: ingestion yields validRecords = number of stored records and
\* validRecords + len(invalidLines) <= totalLines, strictly less when the
\* source contains a blank line; no blank line is listed in invalidLines, and
\* a malformed line does not stop the lines after it from being stored.
C12_IngestCounts ==
    Ingested =>
        LET lines == Split(call.content, <<"\n">>)
            stats == ret.out.stats
            recs == ret.out.records
        IN /\ stats.ValidRecords = Len(recs)
           /\ stats.ValidRecords + Len(stats.InvalidLines) <= stats.TotalLines
           /\ HasBlankLine(call.content) =>
                stats.ValidRecords + Len(stats.InvalidLines) < stats.TotalLines
           /\ \A k \in 1..Len(stats.InvalidLines) :
                /\ stats.InvalidLines[k] \in 1..Len(lines)
                /\ TrimSpace(lines[stats.InvalidLines[k]]) # <<>>
           /\ \A i \in 1..Len(lines) :
                (TrimSpace(lines[i]) # <<>> /\ ~Unmarshal(TrimSpace(lines[i])).err)
                    => \E k \in 1..Len(recs) : recs[k].LineNumber = i

C12_Witness ==
    /\ Ingested
    /\ HasBlankLine(call.content)
    /\ ret.out.stats.TotalLines = 3
    /\ ret.out.stats.InvalidLines = <<1>>
    /\ ret.out.stats.ValidRecords = 1
    /\ ret.out.records[1].LineNumber = 3
(***************************************************************************)
(* Properties of the projection (SpecProject).                             *)
(***************************************************************************)
Projected == ret.op = "getDisplayJSON"

\* The keys a (show, hide) pair retains of a record.
RetainedKeys(record, shown, hidden) ==
    IF shown # <<>> THEN {f \in DOMAIN record.Content : InList(f, shown)}
    ELSE {f \in DOMAIN record.Content : ~InList(f, hidden)}

\* C14: getDisplayJSON returns the raw line unchanged when both lists are
\* empty; otherwise its output is an object holding exactly the record's keys
\* in shownFields when that list is non-empty (hiddenFields ignored), exactly
\* the keys not in hiddenFields when it is empty, each with its original value.
C14_ProjectionRetains ==
    Projected =>
        IF call.shown = <<>> /\ call.hidden = <<>>
        THEN ret.text = call.record.RawJSON
        ELSE /\ ~Unmarshal(ret.text).err
             /\ DOMAIN Unmarshal(ret.text).content
                    = RetainedKeys(call.record, call.shown, call.hidden)
             /\ \A f \in RetainedKeys(call.record, call.shown, call.hidden) :
                    Unmarshal(ret.text).content[f] = call.record.Content[f]

C14_Witness ==
    /\ Projected
    /\ call.record.RawJSON = <<"{","\"","a","\"",":","1",",","\"","b","\"",":","2",",","\"","c","\"",":","3","}">>
    /\ call.shown = <<<<"a">>>>
    /\ call.hidden = <<<<"b">>>>
    /\ ret.text = <<"{","\"","a","\"",":","1","}">>

\* Position of key k in an object text.
KeyPos(text, k) == Index(text, <<QUOTE>> \o k \o <<QUOTE, ":">>)

\* C15 as stated: with shownFields non-empty, the projected JSON lists the
\* retained keys in the order in which they appear in the record's source line.
C15_OriginalKeyOrder ==
    (Projected /\ call.shown # <<>>) =>
        \A f, g \in RetainedKeys(call.record, call.shown, call.hidden) :
            KeyPos(ret.text, f) < KeyPos(ret.text, g)
                <=> KeyPos(call.record.RawJSON, f) < KeyPos(call.record.RawJSON, g)

\* C16: the record viewer's projection and the export's projection of the
\* same record under the same (show, hide) pair hold the same fields with
\* the same values.
C16_SameProjection ==
    /\ Projected =>
        /\ ~Unmarshal(ret.text).err
        /\ Unmarshal(ret.text).content
            = Unmarshal(displayJSON(call.record, call.shown, call.hidden)).content
    /\ ret.op = "displayJSON" =>
        /\ ~Unmarshal(ret.text).err
        /\ Unmarshal(ret.text).content
            = Unmarshal(getDisplayJSON(call.record, call.shown, call.hidden)).content

C16_Witness ==
    /\ ret.op = "displayJSON"
    /\ call.record.RawJSON = <<"{","\"","a","\"",":","1",",","\"","b","\"",":","2",",","\"","c","\"",":","3","}">>
    /\ call.shown = <<>>
    /\ call.hidden = <<<<"b">>>>
    /\ ret.text = <<"{","\"","a","\"",":","1",",","\"","c","\"",":","3","}">>
    /\ getDisplayJSON(call.record, call.shown, call.hidden) = ret.text
\* Number of stored records that hold field f.
RecordsWithField(recs, f) == Cardinality({k \in 1..Len(recs) : f \in DOMAIN recs[k].Content})

\* C13 as stated: a field is reported as common exactly when it occurs in at
\* least half of the valid records (2 * count >= validRecords), for every
\* number of records.
C13_CommonIsAtLeastHalf ==
    Ingested =>
        LET recs == ret.out.records
        IN ret.out.stats.CommonFields =
            {f \in UNION {DOMAIN recs[k].Content : k \in 1..Len(recs)} :
                2 * RecordsWithField(recs, f) >= ret.out.stats.ValidRecords}
(***************************************************************************)
(* Properties of export, lookup and the store's frame (Spec).              *)
(***************************************************************************)
\* The loaded source has not changed since it was loaded.
SourceUnchanged ==
    /\ currentFile # Nil
    /\ (currentFile[1].Path = ClipboardPath \/ disk.modTime = currentFile[1].ModifiedAt)

\* Every record SearchRecords counts in totalMatches for query q with
\* caseSensitive = false, in store order.
SearchMatchSet(q) ==
    IF TrimSpace(q) = <<>> THEN NoRecords
    ELSE matchingRecords(SearchOptions(q, FALSE, TRUE, <<>>, 0, 0))

\* C17 as stated: on an unchanged loaded source, ExportSearchResults(q, show,
\* hide) writes one projected line per record of the complete match set that
\* SearchRecords reports for q with caseSensitive = false, in the same order.
C17_ExportIsSearchMatchSet ==
    (ret.op = "ExportSearchResults" /\ SourceUnchanged) =>
        /\ ret.err = ""
        /\ ret.lines = [k \in 1..Len(SearchMatchSet(call.query)) |->
                            getDisplayJSON(SearchMatchSet(call.query)[k],
                                           call.shown, call.hidden)]

SourceOps ==
    {"GetRecords", "GetRecordByLineNumber", "GetRecordRange", "SearchRecords",
     "GetAllFields", "GetCommonFields", "GetFileStats", "CheckFileModification",
     "ReloadCurrentFile", "ExportSearchResults", "GetAllRecords"}

NoSourceErrors == {"ErrNoFileLoaded", "no file loaded"}

\* C18 as stated: before any successful load, every page, lookup, range,
\* search, field-analysis, statistics, modification-check, reload and export
\* operation fails with the no-source-loaded error, the session state stays
\* empty and no export file is created.
C18_NothingBeforeLoad ==
    (currentFile = Nil /\ ret.op \in SourceOps) =>
        /\ ret.err \in NoSourceErrors
        /\ records = NoRecords
        /\ cache = Nil
        /\ downloads = {}

\* C19 as stated: GetRecordByLineNumber(n) on a loaded store returns the one
\* stored record numbered n when there is one, fails with InvalidLineNumber
\* for n <= 0, and for n > 0 without a record at that line fails with an
\* error of another kind than InvalidLineNumber.
C19_LookupErrorKinds ==
    (ret.op = "GetRecordByLineNumber" /\ ~NoFileLoaded) =>
        LET n == call.lineNumber
            hits == {k \in 1..Len(records) : records[k].LineNumber = n}
        IN IF n <= 0 THEN ret.err = "ErrInvalidLineNum"
           ELSE IF hits # {}
           THEN /\ ret.err = ""
                /\ Cardinality(hits) = 1
                /\ \A k \in hits : ret.record = records[k]
           ELSE ret.err \notin {"", "ErrInvalidLineNum"}

LoadOps == {"LoadJSONLFile", "LoadJSONLFromClipboard", "ReloadCurrentFile"}

\* A step that is a successful load or reload.
LoadSucceeds == ret'.op \in LoadOps /\ ret'.err = ""

\* A step that changes the page size of the cache and nothing else.
PageSizeSet ==
    /\ ret'.op = "SetPageSize"
    /\ currentFile' = currentFile
    /\ records' = records
    /\ cache # Nil
    /\ cache' = <<[cache[1] EXCEPT !.pageSize = cache'[1].pageSize]>>

ReloadStep == Idle /\ ret'.op = "ReloadCurrentFile" /\ currentFile # Nil

StoreShape ==
    /\ (currentFile = Nil) <=> (cache = Nil)
    /\ cache # Nil =>
            /\ cache[1].totalCount = Len(cache[1].records)
            /\ cache[1].totalCount = currentFile[1].Records
            /\ cache[1].records = records
            /\ 1 <= cache[1].pageSize
            /\ cache[1].pageSize <= MaxPageLimit

\* C27 as stated: the store has its shape in every reachable state, and the
\* page size is 50 after every load or reload that returned without error.
C27_ShapeAndDefaultAfterSuccess ==
    /\ StoreShape
    /\ (ret.op \in LoadOps /\ ret.err = "") => cache[1].pageSize = DefaultPageSize

\* The step is a load, or a reload of a file modified since it was loaded,
\* that returns without error.
StoreReplaced ==
    /\ Idle
    /\ \/ ret'.op \in {"LoadJSONLFile", "LoadJSONLFromClipboard"}
       \/ /\ ret'.op = "ReloadCurrentFile"
          /\ currentFile # Nil
          /\ disk.modTime > currentFile[1].ModifiedAt
    /\ ret'.err = ""

\* C27 amended: the store has its shape in every reachable state, and the
\* page size is 50 immediately after every load, and every reload of a
\* modified file, that succeeds; a reload of an unmodified file succeeds
\* without replacing the store and keeps the page size that was set.
C27_ShapeAndDefaultAfterReplace ==
    /\ StoreShape
    /\ [][/\ StoreShape'
          /\ StoreReplaced => cache'[1].pageSize = DefaultPageSize
          /\ (Idle /\ ret'.op = "ReloadCurrentFile" /\ ~StoreReplaced)
                => cache' = cache]_vars

\* SetPageSize was asked for more than the cap and the cache holds the cap.
C27_Witness ==
    /\ ret.op = "SetPageSize"
    /\ ret.err = ""
    /\ call.pageSize > MaxPageLimit
    /\ cache # Nil
    /\ cache[1].pageSize = MaxPageLimit
    /\ cache[1].totalCount = Len(records)

\* The loaded source is pasted content.
PastedSource == currentFile # Nil /\ currentFile[1].Path = ClipboardPath

\* The stored records that the export filter selects for searchQuery.
PastedMatches(searchQuery) ==
    SelectSeq(records, LAMBDA r : exportMatches(r, searchQuery))

\* C30 as stated: on a store loaded from the clipboard, GetAllRecords and
\* ExportSearchResults return without error the pasted records that match
\* the query, and GetFileStats returns statistics whose validRecords is the
\* store's total count.
C30_PastedSourceServed ==
    PastedSource =>
        /\ ret.op = "GetAllRecords" =>
                (ret.err = "" /\ ret.records = PastedMatches(call.query))
        /\ ret.op = "ExportSearchResults" =>
                (ret.err = "" /\ Len(ret.lines) = Len(PastedMatches(call.query)))
        /\ ret.op = "GetFileStats" =>
                (ret.err = "" /\ ret.stats.ValidRecords = cache[1].totalCount)

(***************************************************************************)
(* LoadJSONLFile and GetRecords running at the same time (SpecRace).  The  *)
(* App has no lock and every bound call runs on a goroutine of its own, so *)
(* the field reads of GetRecords interleave with the three assignments of  *)
(* the load.  The reads race with the writes: a later use of a.cache may   *)
(* load the field again or reuse the pointer an earlier use loaded.        *)
(***************************************************************************)
\* cap(records) after the appends of ParseJSONL: the next power of two.
SliceCap(n) == IF n = 0 THEN 0 ELSE IF n = 1 THEN 1 ELSE IF n = 2 THEN 2 ELSE 4

ZeroRecord == JSONRecord(0, EmptyMap, <<>>)

Panic(op) == Failure(op, "panic: slice bounds out of range")

\* s[lo:hi] of a slice with the capacity given by SliceCap (0-based bounds,
\* lo <= hi <= cap): the elements past len(s) are zero values.
SliceTo(s, lo, hi) ==
    [k \in 1..(hi - lo) |-> IF lo + k <= Len(s) THEN s[lo + k] ELSE ZeroRecord]

\* The App after an earlier LoadJSONLFile of content c at time 0.
LoadedStore(parsed, c) ==
    [currentFile |-> <<JSONLFile(DataPath, DataPath, Len(c),
                                 parsed.stats.ValidRecords, 0, 0)>>,
     records |-> parsed.records,
     cache |-> <<RecordCache(parsed.records, DefaultPageSize, Len(parsed.records))>>]

NoStore == [currentFile |-> Nil, records |-> NoRecords, cache |-> Nil]

OldStores == {NoStore} \cup {LoadedStore(ParseJSONL(c), c) : c \in FileContents}

LoadThread(pc, file, recs) == [pc |-> pc, jsonlFile |-> file, records |-> recs]

ReadThread(pc, c, offset, limit, totalRecords) ==
    [pc |-> pc, cache |-> c, offset |-> offset, limit |-> limit,
     totalRecords |-> totalRecords]

InitRace ==
    /\ \E st \in OldStores :
          /\ currentFile = st.currentFile
          /\ records = st.records
          /\ cache = st.cache
    /\ disk \in {[content |-> c, modTime |-> 1] : c \in FileContents}
    /\ now = 1
    /\ downloads = {}
    /\ ui = NoUI
    /\ call \in {[op |-> "GetRecords", offset |-> o, limit |-> l] :
                    o \in OffsetInputs, l \in LimitInputs}
    /\ ret = NoRet
    /\ threads = [load |-> LoadThread("parse", <<>>, NoRecords),
                  read |-> ReadThread("checkFile", Nil, call.offset, call.limit, 0)]

raceFrame == <<disk, now, downloads, ui, call>>

\* LoadJSONLFile up to "Create file info": the file is read and parsed.
LoadParsed(parsed) ==
    /\ threads.load.pc = "parse"
    /\ threads' = [threads EXCEPT !.load =
            LoadThread("setFile",
                       JSONLFile(DataPath, DataPath, Len(disk.content),
                                 parsed.stats.ValidRecords, now, disk.modTime),
                       parsed.records)]
    /\ UNCHANGED <<appVars, raceFrame, ret>>

LoadParse == LoadParsed(ParseJSONL(disk.content))

\* a.currentFile = jsonlFile
LoadSetFile ==
    /\ threads.load.pc = "setFile"
    /\ currentFile' = <<threads.load.jsonlFile>>
    /\ threads' = [threads EXCEPT !.load.pc = "setRecords"]
    /\ UNCHANGED <<records, cache, raceFrame, ret>>

\* a.records = records
LoadSetRecords ==
    /\ threads.load.pc = "setRecords"
    /\ records' = threads.load.records
    /\ threads' = [threads EXCEPT !.load.pc = "setCache"]
    /\ UNCHANGED <<currentFile, cache, raceFrame, ret>>

\* a.cache = &RecordCache{...}
LoadSetCache ==
    /\ threads.load.pc = "setCache"
    /\ cache' = <<RecordCache(threads.load.records, DefaultPageSize,
                              Len(threads.load.records))>>
    /\ threads' = [threads EXCEPT !.load.pc = "done"]
    /\ UNCHANGED <<currentFile, records, raceFrame, ret>>

ReadDone(response) ==
    /\ ret' = response
    /\ threads' = [threads EXCEPT !.read.pc = "done"]

\* a.currentFile == nil
ReadCheckFile ==
    /\ threads.read.pc = "checkFile"
    /\ IF currentFile = Nil
       THEN ReadDone(Failure("GetRecords", "ErrNoFileLoaded"))
       ELSE /\ threads' = [threads EXCEPT !.read.pc = "checkCache"]
            /\ UNCHANGED ret
    /\ UNCHANGED <<appVars, raceFrame>>

\* a.cache == nil, then the offset validation.
ReadCheckCache ==
    /\ threads.read.pc = "checkCache"
    /\ IF cache = Nil
       THEN ReadDone(Failure("GetRecords", "ErrNoFileLoaded"))
       ELSE /\ threads' = [threads EXCEPT !.read =
                    ReadThread("limit", cache,
                               IF @.offset < 0 THEN 0 ELSE @.offset, @.limit, 0)]
            /\ UNCHANGED ret
    /\ UNCHANGED <<appVars, raceFrame>>

\* The pointer a use of a.cache works on.
CacheUsed(reload) == IF reload THEN cache ELSE threads.read.cache

\* limit = a.cache.pageSize when limit <= 0, then the cap.
ReadLimit(reload) ==
    /\ threads.read.pc = "limit"
    /\ threads.read.limit <= 0
    /\ LET c == CacheUsed(reload)
           l == IF c[1].pageSize > MaxPageLimit THEN MaxPageLimit ELSE c[1].pageSize
       IN threads' = [threads EXCEPT !.read =
                         ReadThread("total", c, @.offset, l, 0)]
    /\ UNCHANGED <<appVars, raceFrame, ret>>

\* limit > 0: a.cache is not read, only the cap applies.
ReadLimitGiven ==
    /\ threads.read.pc = "limit"
    /\ threads.read.limit > 0
    /\ threads' = [threads EXCEPT !.read =
            ReadThread("total", @.cache, @.offset,
                       IF @.limit > MaxPageLimit THEN MaxPageLimit ELSE @.limit, 0)]
    /\ UNCHANGED <<appVars, raceFrame, ret>>

\* totalRecords := a.cache.totalCount, then the beyond-the-end return.
ReadTotal(reload) ==
    /\ threads.read.pc = "total"
    /\ LET c == CacheUsed(reload)
           t == threads.read
       IN IF t.offset >= c[1].totalCount
          THEN ReadDone(Page("GetRecords", NoRecords, t.offset, t.limit,
                             c[1].totalCount, 0, FALSE, <<>>, FALSE))
          ELSE /\ threads' = [threads EXCEPT !.read =
                       ReadThread("slice", c, t.offset, t.limit, c[1].totalCount)]
               /\ UNCHANGED ret
    /\ UNCHANGED <<appVars, raceFrame>>

\* records := a.cache.records[offset:endIndex], hasMore and the return.
ReadSlice(reload) ==
    /\ threads.read.pc = "slice"
    /\ LET c == CacheUsed(reload)
           t == threads.read
           endIndex == IF t.offset + t.limit > t.totalRecords
                       THEN t.totalRecords ELSE t.offset + t.limit
       IN IF endIndex > SliceCap(Len(c[1].records))
          THEN ReadDone(Panic("GetRecords"))
          ELSE ReadDone(Page("GetRecords", SliceTo(c[1].records, t.offset, endIndex),
                             t.offset, t.limit, t.totalRecords, 0,
                             endIndex < t.totalRecords, <<>>, FALSE))
    /\ UNCHANGED <<appVars, raceFrame>>

NextRace ==
    \/ LoadParse
    \/ LoadSetFile
    \/ LoadSetRecords
    \/ LoadSetCache
    \/ ReadCheckFile
    \/ ReadCheckCache
    \/ \E reload \in BOOLEAN : ReadLimit(reload)
    \/ ReadLimitGiven
    \/ \E reload \in BOOLEAN : ReadTotal(reload)
    \/ \E reload \in BOOLEAN : ReadSlice(reload)

SpecRace == InitRace /\ [][NextRace]_vars

(***************************************************************************)
(* Property of a page request that runs during a load (SpecRace).          *)
(***************************************************************************)
\* The store the load leaves: what LoadedStore gives for the file on disk.
NewRecords == ParseJSONL(disk.content).records

\* The response is the page [offset, offset + limit) of the record sequence
\* recs, with the total of recs.
PageOfStore(recs) ==
    /\ ret.err = ""
    /\ ret.Total = Len(recs)
    /\ ret.Records = SubSeq(recs, ret.Offset + 1,
                            IF ret.Offset + ret.Limit > Len(recs)
                            THEN Len(recs) ELSE ret.Offset + ret.Limit)

\* C21 as stated: a page request that runs while a load runs answers from
\* the complete old store or from the complete new store (or fails with the
\* no-source error when the old store is empty): total and records come
\* from the same load, and the record sequence is never sliced with a count
\* taken from another load.
C21_OneStorePerRequest ==
    threads.read.pc = "done" =>
        \/ ret.err = "ErrNoFileLoaded"
        \/ \E st \in OldStores : st.cache # Nil /\ PageOfStore(st.records)
        \/ PageOfStore(NewRecords)

(***************************************************************************)
(* Front end (SpecUI): the Svelte stores, the FileLoader, RecordViewer,    *)
(* SearchComponent, field-visibility and navigation components, driving    *)
(* the App.  A handler runs to its next await in one step, followed by the *)
(* reactive blocks of the RecordViewer that the step made dirty; a bound   *)
(* call is served by the App when it is made, and the responses of the     *)
(* calls in flight come back in any order.                                 *)
(***************************************************************************)
SEARCH_LIMIT == 10000
PAGE_SIZE_OPTIONS == {10, 25, 50, 100, 200, 500}

\* The stores and the component state before any file is loaded.
InitialUI ==
    [currentFile |-> Nil, records |-> NoRecords, searchQuery |-> <<>>,
     totalRecords |-> 0, currentRecordIndex |-> 0,
     fieldsToShow |-> <<>>, fieldsToHide |-> <<>>,
     isLoading |-> FALSE, error |-> "",
     isLoadingFile |-> FALSE, isLoadingClipboard |-> FALSE,
     recordsPerPage |-> 50, currentPage |-> 1, totalRecordsCount |-> 0,
     currentRecords |-> NoRecords, isLoadingRecords |-> FALSE,
     searchInput |-> <<>>, isSearching |-> FALSE, debounceTimer |-> FALSE,
     goToLineError |-> "", pending |-> <<>>]

GetTotalRecordCount ==
    IF NoFileLoaded THEN Failure("GetTotalRecordCount", "ErrNoFileLoaded")
    ELSE [op |-> "GetTotalRecordCount", err |-> "", count |-> cache[1].totalCount]

\* `await f(...)`: the call is in flight with the function to resume.
Await(u, cont, resp) ==
    [u EXCEPT !.pending = Append(@, [cont |-> cont, resp |-> resp])]

\* Array.prototype.slice(start, end) with 0 <= start <= end.
Slice(s, start, end) ==
    SubSeq(s, start + 1, IF end > Len(s) THEN Len(s) ELSE end)

loadCurrentPage(u) ==
    IF u.currentFile = Nil \/ u.isLoadingRecords \/ u.searchQuery # <<>>
    THEN u
    ELSE Await([u EXCEPT !.isLoadingRecords = TRUE], "loadCurrentPage",
               GetRecords((u.currentPage - 1) * u.recordsPerPage, u.recordsPerPage))

paginateSearchResults(u) ==
    IF Len(u.records) = 0
    THEN [u EXCEPT !.currentRecords = NoRecords]
    ELSE [u EXCEPT !.currentRecords =
              Slice(u.records, (u.currentPage - 1) * u.recordsPerPage,
                    (u.currentPage - 1) * u.recordsPerPage + u.recordsPerPage)]

\* initializeRecords up to its first await.
initializeRecords(u) ==
    IF u.currentFile = Nil
    THEN [u EXCEPT !.currentRecords = NoRecords, !.totalRecordsCount = 0,
                   !.currentPage = 1, !.totalRecords = 0]
    ELSE Await([u EXCEPT !.isLoadingRecords = TRUE, !.error = ""],
               "initializeRecords", GetTotalRecordCount)

\* $: if ($searchQuery && $records.length > 0) ... else if (!$searchQuery && $currentFile) ...
searchResultsBlock(u) ==
    IF u.searchQuery # <<>> /\ Len(u.records) > 0
    THEN paginateSearchResults([u EXCEPT !.totalRecordsCount = Len(u.records),
                                         !.currentPage = 1])
    ELSE IF u.searchQuery = <<>> /\ u.currentFile # Nil
    THEN loadCurrentPage([u EXCEPT !.currentPage = 1])
    ELSE u

\* $: if ($currentFile) initializeRecords()
fileChangedBlock(u) == IF u.currentFile # Nil THEN initializeRecords(u) ELSE u

\* The reactive blocks of the RecordViewer, in the order the compiler gives
\* them: the block that assigns totalRecordsCount and currentPage precedes
\* the declarations that read these, hence the block on $currentFile too.
\* The component exists while $hasFile; at creation every block runs.
flushViewer(u, fileDirty, searchDirty) ==
    IF u.currentFile = Nil THEN u
    ELSE IF fileDirty THEN fileChangedBlock(searchResultsBlock(u))
    ELSE IF searchDirty THEN searchResultsBlock(u)
    ELSE u

\* actions.setFile
setFile(u, file) ==
    IF file = Nil
    THEN [u EXCEPT !.currentFile = Nil, !.records = NoRecords, !.searchQuery = <<>>,
                   !.currentRecordIndex = 0, !.totalRecords = 0, !.error = "",
                   !.fieldsToShow = <<>>, !.fieldsToHide = <<>>]
    ELSE [u EXCEPT !.currentFile = file]

\* handleFileSelect / handleClipboardPaste after the load call has returned.
fileLoadReturned(u, response) ==
    IF response.err = ""
    THEN flushViewer(setFile(u, <<response.file>>), TRUE, FALSE)
    ELSE [u EXCEPT !.error = response.err]

clearSearch(u) ==
    flushViewer([u EXCEPT !.searchInput = <<>>, !.searchQuery = <<>>,
                          !.debounceTimer = FALSE, !.records = NoRecords],
                FALSE, TRUE)

\* performSearch up to its await (Lucene syntax on, case-insensitive).
performSearch(u) ==
    IF u.searchInput = <<>>
    THEN clearSearch(u)
    ELSE flushViewer(
             Await([u EXCEPT !.isSearching = TRUE, !.searchQuery = u.searchInput],
                   "performSearch",
                   SearchRecords(SearchOptions(u.searchInput, FALSE, TRUE, AllText,
                                               0, SEARCH_LIMIT))),
             FALSE, u.searchInput # u.searchQuery)

\* performSearch after SearchRecords has returned.
searchReturned(u, result) ==
    IF result.err = ""
    THEN flushViewer([u EXCEPT !.records = result.Records, !.isSearching = FALSE],
                     FALSE, TRUE)
    ELSE [u EXCEPT !.error = result.err, !.isSearching = FALSE]

\* initializeRecords after GetTotalRecordCount has returned: the awaited
\* loadCurrentPage, and the finally block.
countReturned(u, response) ==
    IF response.err = ""
    THEN [loadCurrentPage([u EXCEPT !.totalRecordsCount = response.count,
                                    !.totalRecords = response.count,
                                    !.currentPage = 1])
            EXCEPT !.isLoadingRecords =
                (u.currentFile # Nil /\ ~u.isLoadingRecords /\ u.searchQuery = <<>>)]
    ELSE [u EXCEPT !.error = response.err, !.isLoadingRecords = FALSE]

\* loadCurrentPage after GetRecords has returned.
pageReturned(u, paginatedRecords) ==
    IF paginatedRecords.err = ""
    THEN [u EXCEPT !.currentRecords = paginatedRecords.Records,
                   !.isLoadingRecords = FALSE]
    ELSE [u EXCEPT !.error = "Failed to load records", !.isLoadingRecords = FALSE]

\* handleGoToLine after GetRecordByLineNumber has returned.
goToLineReturned(u, response) ==
    IF response.err = ""
    THEN LET recordIndex == response.record.LineNumber - 1
         IN IF recordIndex >= 0 /\ recordIndex < u.totalRecords
            THEN [u EXCEPT !.currentRecordIndex = recordIndex]
            ELSE [u EXCEPT !.goToLineError = "not found in current view"]
    ELSE [u EXCEPT !.goToLineError = response.err]

\* toggleField of the field-visibility controls.
toggleField(u, field) ==
    IF InList(field, u.fieldsToShow)
    THEN [u EXCEPT !.fieldsToShow = SelectSeq(@, LAMBDA f : f # field)]
    ELSE IF InList(field, u.fieldsToHide)
    THEN [u EXCEPT !.fieldsToHide = SelectSeq(@, LAMBDA f : f # field)]
    ELSE [u EXCEPT !.fieldsToHide = Append(@, field)]

\* Calls a user event may find in flight.
MaxPending == 2

UIQueries == {<<>>, <<"a",":","x">>, <<"b",":","1">>, <<"z">>}
UILines == {0, 1, MaxLineInput}
UIPageSizes == {10, 50}
UIFields == {<<"a">>}

InitUI ==
    /\ currentFile = Nil
    /\ records = NoRecords
    /\ cache = Nil
    /\ disk = [content |-> FileA, modTime |-> 0]
    /\ now = 0
    /\ downloads = {}
    /\ ui = InitialUI
    /\ threads = NoThreads
    /\ call = NoCall
    /\ ret = NoRet

uiFrame == <<disk, now, downloads, threads>>

\* The user can start an event: the components exist and few calls are in flight.
Ready == ui.currentFile # Nil /\ Len(ui.pending) < MaxPending

\* handleFileSelect up to `await LoadJSONLFile(filePath)`, filePath being the
\* file chosen in the dialog.
handleFileSelect(filePath) ==
    /\ Idle
    /\ ~ui.isLoadingFile /\ ~ui.isLoadingClipboard
    /\ Len(ui.pending) < MaxPending
    /\ call' = [op |-> "LoadJSONLFile", filePath |-> filePath]
    /\ LoadFileBody("LoadJSONLFile", filePath)
    /\ ui' = [ui EXCEPT !.isLoadingFile = TRUE, !.error = "", !.isLoading = TRUE]
    /\ UNCHANGED uiFrame

\* handleClipboardPaste up to `await LoadJSONLFromClipboard()`, the clipboard
\* holding clipboardContent (not blank).
handleClipboardPaste(clipboardContent) ==
    /\ Idle
    /\ ~ui.isLoadingFile /\ ~ui.isLoadingClipboard
    /\ Len(ui.pending) < MaxPending
    /\ TrimSpace(clipboardContent) # <<>>
    /\ call' = [op |-> "LoadJSONLFromClipboard"]
    /\ StoreParsedClipboard(ParseJSONLFromString(clipboardContent))
    /\ ui' = [ui EXCEPT !.isLoadingClipboard = TRUE, !.error = "", !.isLoading = TRUE]
    /\ UNCHANGED uiFrame

\* The load call returns: the rest of handleFileSelect / handleClipboardPaste.
LoadReturns ==
    /\ ret.op \in {"LoadJSONLFile", "LoadJSONLFromClipboard"}
    /\ ui' = [fileLoadReturned(ui, ret) EXCEPT !.isLoadingFile = FALSE,
                  !.isLoadingClipboard = FALSE, !.isLoading = FALSE]
    /\ call' = NoCall
    /\ ret' = NoRet
    /\ UNCHANGED <<appVars, uiFrame>>

\* The user edits the search box: handleInputChange arms the debounce timer.
handleInputChange(query) ==
    /\ Ready /\ ~ui.isLoading
    /\ query # ui.searchInput
    /\ ui' = [ui EXCEPT !.searchInput = query, !.debounceTimer = TRUE]
    /\ UNCHANGED <<appVars, uiFrame, call, ret>>

\* The debounce timer fires.
debounceSearch ==
    /\ ui.debounceTimer
    /\ ui' = performSearch([ui EXCEPT !.debounceTimer = FALSE])
    /\ UNCHANGED <<appVars, uiFrame, call, ret>>

\* Enter in the search box, or the search button.
handleSearchClick ==
    /\ Ready /\ ~ui.isLoading
    /\ ui' = performSearch([ui EXCEPT !.debounceTimer = FALSE])
    /\ UNCHANGED <<appVars, uiFrame, call, ret>>

\* Escape in the search box, or the clear button.
handleClearClick ==
    /\ Ready /\ ~ui.isLoading
    /\ ui' = clearSearch(ui)
    /\ UNCHANGED <<appVars, uiFrame, call, ret>>

\* The page-size selector, shown when no page is loading and the count is not 0.
handlePageSizeChange(newPageSize) ==
    /\ Ready
    /\ ~ui.isLoadingRecords /\ ui.totalRecordsCount # 0
    /\ newPageSize # ui.recordsPerPage
    /\ ui' = IF ui.searchQuery # <<>>
             THEN paginateSearchResults([ui EXCEPT !.recordsPerPage = newPageSize,
                                                   !.currentPage = 1])
             ELSE loadCurrentPage([ui EXCEPT !.recordsPerPage = newPageSize,
                                             !.currentPage = 1])
    /\ UNCHANGED <<appVars, uiFrame, call, ret>>

handleToggleField(field) ==
    /\ ui.currentFile # Nil
    /\ ui' = toggleField(ui, field)
    /\ UNCHANGED <<appVars, uiFrame, call, ret>>

\* handleGoToLine up to `await GetRecordByLineNumber(lineNumber)`.
handleGoToLine(lineNumber) ==
    /\ Ready /\ ui.totalRecords > 0
    /\ ui' = IF lineNumber <= 0
             THEN [ui EXCEPT !.goToLineError = "Please enter a valid line number"]
             ELSE Await([ui EXCEPT !.goToLineError = ""], "handleGoToLine",
                        GetRecordByLineNumber(lineNumber))
    /\ UNCHANGED <<appVars, uiFrame, call, ret>>

\* The function that awaits the response resumes with it.
resume(u, cont, response) ==
    IF cont = "loadCurrentPage" THEN pageReturned(u, response)
    ELSE IF cont = "initializeRecords" THEN countReturned(u, response)
    ELSE IF cont = "performSearch" THEN searchReturned(u, response)
    ELSE goToLineReturned(u, response)

\* A call in flight returns, in any order.
CallReturns(i) ==
    /\ i \in 1..Len(ui.pending)
    /\ ui' = resume([ui EXCEPT !.pending =
                        SubSeq(@, 1, i - 1) \o SubSeq(@, i + 1, Len(@))],
                    ui.pending[i].cont, ui.pending[i].resp)
    /\ UNCHANGED <<appVars, uiFrame, call, ret>>

\* The viewer and the search box.
NextUI ==
    \/ \E filePath \in {DataPath, "missing.jsonl"} : handleFileSelect(filePath)
    \/ handleClipboardPaste(ClipRecords)
    \/ LoadReturns
    \/ \E query \in UIQueries : handleInputChange(query)
    \/ debounceSearch
    \/ handleSearchClick
    \/ handleClearClick
    \/ \E newPageSize \in UIPageSizes : handlePageSizeChange(newPageSize)
    \/ \E i \in 1..(MaxPending + 3) : CallReturns(i)

SpecUI == InitUI /\ [][NextUI]_vars

\* The file loader and the viewer alone: no search is ever made.
NextViewer ==
    \/ \E filePath \in {DataPath, "missing.jsonl"} : handleFileSelect(filePath)
    \/ handleClipboardPaste(ClipRecords)
    \/ LoadReturns
    \/ \E newPageSize \in UIPageSizes : handlePageSizeChange(newPageSize)
    \/ \E i \in 1..(MaxPending + 3) : CallReturns(i)

SpecViewer == InitUI /\ [][NextViewer]_vars

\* The field-visibility controls and the go-to-line box.
NextControls ==
    \/ \E filePath \in {DataPath, "missing.jsonl"} : handleFileSelect(filePath)
    \/ handleClipboardPaste(ClipRecords)
    \/ LoadReturns
    \/ \E field \in UIFields : handleToggleField(field)
    \/ \E lineNumber \in UILines : handleGoToLine(lineNumber)
    \/ \E i \in 1..(MaxPending + 3) : CallReturns(i)

SpecControls == InitUI /\ [][NextControls]_vars

(***************************************************************************)
(* Properties of the field-visibility controls and of go-to-line           *)
(* (SpecControls).                                                         *)
(***************************************************************************)
\* The step is the return of a load call that succeeded: FileLoader calls
\* actions.setFile with the loaded file.
FileLoadedStep ==
    /\ ret.op \in {"LoadJSONLFile", "LoadJSONLFromClipboard"}
    /\ ret.err = ""
    /\ ret' = NoRet

\* C23 as stated: whenever FileLoader stores a newly loaded file with
\* actions.setFile, fieldsToShow and fieldsToHide are empty afterwards,
\* whatever they held before the load.
C23_LoadResetsVisibility ==
    [][FileLoadedStep =>
          (ui'.currentFile = <<ret.file>> /\ ui'.fieldsToShow = <<>>
             /\ ui'.fieldsToHide = <<>>)]_vars

\* The step is the return of the go-to-line call in flight at position i.
GoToLineReturns(i) ==
    /\ ui.pending[i].cont = "handleGoToLine"
    /\ ui'.pending = SubSeq(ui.pending, 1, i - 1)
                       \o SubSeq(ui.pending, i + 1, Len(ui.pending))
    /\ UNCHANGED <<appVars, call, ret>>

\* C26 as stated: go to line n, for a line n at which a stored record
\* exists, selects that record: currentRecordIndex becomes the record's
\* position in the store, also when blank or invalid lines precede it, and
\* no not-found message is produced.
C26_GoToLineSelectsRecord ==
    [][\A i \in 1..Len(ui.pending) : \A k \in 1..Len(records) :
          (GoToLineReturns(i) /\ ui.pending[i].resp.err = ""
             /\ records[k] = ui.pending[i].resp.record
             /\ ui.totalRecords = Len(records))
          => (ui'.currentRecordIndex = k - 1 /\ ui'.goToLineError = "")]_vars

(***************************************************************************)
(* Properties of the record viewer and of the search box (SpecUI).         *)
(***************************************************************************)
\* The step is the return of the only call in flight, awaited by cont.
OnlyCallReturns(cont) ==
    /\ Len(ui.pending) = 1
    /\ ui.pending[1].cont = cont
    /\ ui'.pending = <<>>
    /\ UNCHANGED <<appVars, call, ret>>

\* C24 as stated: when a search completes with zero matches, currentRecords
\* is empty once the result is stored: the viewer no longer shows the
\* records of the page displayed before.
C24_NoMatchesEmptiesViewer ==
    [][(OnlyCallReturns("performSearch") /\ ui.searchQuery # <<>>
          /\ ui.pending[1].resp.err = ""
          /\ Len(ui.pending[1].resp.Records) = 0)
       => ui'.currentRecords = NoRecords]_vars

\* The step clears the search (clearSearch) while no call is in flight and
\* no page is loading.
SearchClearedStep ==
    /\ Idle /\ ui.pending = <<>> /\ ~ui.isLoadingRecords
    /\ ui.searchQuery # <<>> /\ ui'.searchQuery = <<>>

\* The first page of the whole store, for the page size of the viewer u.
FirstPageOfStore(u) == SubSeq(cache[1].records, 1, Min(u.recordsPerPage, Len(cache[1].records)))

\* C25 as stated: after a search is cleared the viewer shows all records
\* again: its record total (hence its page count) is that of the whole
\* store, not that of the last search result, and the page it requests and
\* then displays is the first page of the whole store.
C25_ClearRestoresAllRecords ==
    [][SearchClearedStep =>
          /\ ui'.totalRecordsCount = cache[1].totalCount
          /\ ui'.currentPage = 1
          /\ Len(ui'.pending) = 1
          /\ ui'.pending[1].cont = "loadCurrentPage"
          /\ ui'.pending[1].resp.err = ""
          /\ ui'.pending[1].resp.Records = FirstPageOfStore(ui')]_vars

\* The step is the return of the search in flight at position i, no other
\* search being in flight.
LastSearchReturns(i) ==
    /\ ui.pending[i].cont = "performSearch"
    /\ \A j \in 1..Len(ui.pending) : j # i => ui.pending[j].cont # "performSearch"
    /\ ui'.pending = SubSeq(ui.pending, 1, i - 1)
                       \o SubSeq(ui.pending, i + 1, Len(ui.pending))
    /\ UNCHANGED <<appVars, call, ret>>

\* C28 as stated: when searches have been issued one after the other and
\* all of them have completed, in whatever order their responses arrived,
\* the records store holds the result of the query issued last, the one held
\* in the searchQuery store.
C28_LatestQueryWins ==
    [][\A i \in 1..Len(ui.pending) :
          (LastSearchReturns(i) /\ ui.searchQuery # <<>>
             /\ ui.pending[i].resp.err = "")
          => /\ ui.pending[i].resp.Query = ui'.searchQuery
             /\ ui'.records = ui.pending[i].resp.Records]_vars

(***************************************************************************)
(* Property of the record viewer after a load (SpecViewer).                *)
(***************************************************************************)
\* A file is loaded, no load is running and every call made by
\* initializeRecords and loadCurrentPage has returned.
ViewerSettled == Idle /\ ui.currentFile # Nil /\ ui.pending = <<>>

\* C29 as stated: after a file load with no active search, once
\* initializeRecords and the loadCurrentPage calls have finished, the viewer
\* displays the first page: currentRecords is the records of
\* GetRecords(0, recordsPerPage) and isLoadingRecords is false.
C29_FirstPageDisplayed ==
    (ViewerSettled /\ ui.searchQuery = <<>>) =>
        /\ ui.currentRecords = GetRecords(0, ui.recordsPerPage).Records
        /\ ~ui.isLoadingRecords
====
